---- MODULE Spec2Model ----
(***************************************************************************)
(* A model of the vamp front end and evaluator: the tuple container        *)
(* (vamp_tuple), the symbol interner (vamp_sym), the lexer and the Pratt   *)
(* parser (vamp_syntax) and the tree-walking evaluator (vamp_eval).         *)
(* Each component has its own specification; the variables of the other    *)
(* components stay at their initial values.                                *)
(***************************************************************************)
EXTENDS Integers, Sequences, FiniteSets, TLC

VARIABLES
    tuple,          \* vamp_tuple::Tuple<T>: [keys, data]
    tupleHist,      \* history of the calls made on `tuple` (not program state)
    interner,       \* vamp_sym::Interner: [map, vector]
    internHist,     \* history of the calls made on `interner` (not program state)
    source,         \* lexer::Tokens.source: the bytes of the source text
    lexer,          \* lexer::Tokens: [start, end, last_token_kind, auto_insert_comma]
    tokens,         \* tokenize: the token vector built so far
    lexPc,          \* where tokenize stands: "whitespace", "comment", "token", "done"
    lexResult,      \* tokenize's result: "running", "Ok" or the error kind
    parsed,         \* what parse_expr / parse_stmt returned: <<>> before the call, <<result>> after
    heap,           \* the Scopes behind Rc<RefCell<..>>; Session.scope is 1, Session.ctx is 2
    evaluated,      \* what Session::eval_stmt returned: <<>> before the call, <<result>> after
    evalTrace,      \* history of the evaluation: [calls, evals] (not program state)
    build,          \* "debug" (overflow checks on) or "release" (off)
    bindArgs,       \* the (pattern, value) handed to bind: <<>> or <<[pattern, value]>>
    fs,             \* the files under the package root: path -> source text
    modules,        \* Session.modules: module path -> Mod [deps, scope]
    moduleDefs,     \* history: module path -> the ast::Mod it was evaluated from
    sessionLog,     \* history of the calls made on the session (not program state)
    mainPc,         \* the thread that owns the session: where it stands
    replPc,         \* the REPL thread: "reading" or "ended"
    channel,        \* the mpsc channel of SourceEvents: sent and not yet received
    sent,           \* history: every event sent, in the channel's order
    received        \* history: every event the drain loop took from the channel

tupleVars == <<tuple, tupleHist>>
internVars == <<interner, internHist>>
lexVars == <<source, lexer, tokens, lexPc, lexResult>>
parseVars == <<parsed>>
evalVars == <<heap, evaluated, evalTrace, build, bindArgs>>
sessionVars == <<fs, modules, moduleDefs, sessionLog, mainPc>>
mainVars == <<replPc, channel, sent, received>>
vars == <<tupleVars, internVars, lexVars, parseVars, evalVars, sessionVars, mainVars>>

(***************************************************************************)
(* Option<T>                                                               *)
(***************************************************************************)
None == [some |-> FALSE]
Some(v) == [some |-> TRUE, val |-> v]

(***************************************************************************)
(* Bounds of the model                                                     *)
(***************************************************************************)
MaxTupleLen == 4
MaxKey == 2
MaxValue == 2
MaxSyms == 4
MaxSrcLen == 4
MaxOverrun == 2

(***************************************************************************)
(* Vec helpers (0-based indices as in the source)                          *)
(***************************************************************************)
VecInsert(s, i, v) == SubSeq(s, 1, i) \o <<v>> \o SubSeq(s, i + 1, Len(s))
VecGet(s, i) == IF i >= 0 /\ i < Len(s) THEN Some(s[i + 1]) ELSE None
VecSet(s, i, v) == [s EXCEPT ![i + 1] = v]

(***************************************************************************)
(* vamp_tuple                                                              *)
(***************************************************************************)
TupleNew == [keys |-> <<>>, data |-> <<>>]

len(t) == Len(t.data)
keys_len(t) == Len(t.keys)
named_offset(t) == Len(t.data) - Len(t.keys)

\* slice::binary_search over the sorted key vector: Ok(i) when keys[i] = key,
\* Err(i) with i the insertion point otherwise.
RECURSIVE bsearch(_, _, _, _)
bsearch(keys, key, lo, hi) ==
    IF lo >= hi THEN [found |-> FALSE, i |-> lo]
    ELSE LET mid == lo + ((hi - lo) \div 2) IN
         IF keys[mid + 1] = key THEN [found |-> TRUE, i |-> mid]
         ELSE IF keys[mid + 1] < key THEN bsearch(keys, key, mid + 1, hi)
         ELSE bsearch(keys, key, lo, mid)
binary_search(keys, key) == bsearch(keys, key, 0, Len(keys))

key_position(t, key) ==
    LET r == binary_search(t.keys, key) IN
    IF r.found THEN Some(named_offset(t) + r.i) ELSE None

\* impl TupleIndex<T> for usize
index_usize(i, t) == VecGet(t.data, i)
\* impl TupleIndex<T> for Sym
index_sym(key, t) ==
    LET p == key_position(t, key) IN
    IF p.some THEN VecGet(t.data, p.val) ELSE None

get_usize(t, i) == index_usize(i, t)
get_sym(t, key) == index_sym(key, t)

push(t, value) == [t EXCEPT !.data = VecInsert(t.data, named_offset(t), value)]

\* Tuple::insert: the tuple afterwards and the returned Option<T>.
insert_unsorted(t, key, value) ==
    LET offset == named_offset(t)
        r == binary_search(t.keys, key) IN
    IF r.found
    THEN [tuple |-> [t EXCEPT !.data = VecSet(t.data, offset + r.i, value)],
          old |-> Some(t.data[offset + r.i + 1])]
    ELSE [tuple |-> [keys |-> Append(t.keys, key),
                     data |-> Append(t.data, value)],
          old |-> None]
insert(t, key, value) ==
    LET offset == named_offset(t)
        r == binary_search(t.keys, key) IN
    IF r.found
    THEN [tuple |-> [t EXCEPT !.data = VecSet(t.data, offset + r.i, value)],
          old |-> Some(t.data[offset + r.i + 1])]
    ELSE [tuple |-> [keys |-> VecInsert(t.keys, r.i, key),
                     data |-> VecInsert(t.data, offset + r.i, value)],
          old |-> None]

Keys == 0..MaxKey
Values == 1..MaxValue

TupleHistNew == [pushed |-> <<>>, named |-> <<>>, ret |-> [op |-> "new"]]

TuplePush ==
    \E v \in Values :
        /\ len(tuple) < MaxTupleLen
        /\ tuple' = push(tuple, v)
        /\ tupleHist' = [tupleHist EXCEPT !.pushed = Append(@, v),
                                          !.ret = [op |-> "push"]]

TupleInsert ==
    \E k \in Keys, v \in Values :
        /\ len(tuple) < MaxTupleLen \/ k \in DOMAIN tupleHist.named
        /\ tuple' = insert(tuple, k, v).tuple
        /\ tupleHist' = [tupleHist EXCEPT
               !.named = [x \in (DOMAIN @) \cup {k} |-> IF x = k THEN v ELSE @[x]],
               !.ret = [op |-> "insert", key |-> k, res |-> insert(tuple, k, v).old,
                        known |-> k \in DOMAIN tupleHist.named,
                        lenBefore |-> len(tuple)]]

TupleGetIndex ==
    \E i \in 0..MaxTupleLen :
        /\ tuple' = tuple
        /\ tupleHist' = [tupleHist EXCEPT
               !.ret = [op |-> "get_usize", i |-> i, res |-> get_usize(tuple, i)]]

TupleGetKey ==
    \E k \in Keys :
        /\ tuple' = tuple
        /\ tupleHist' = [tupleHist EXCEPT
               !.ret = [op |-> "get_sym", key |-> k, res |-> get_sym(tuple, k)]]

(***************************************************************************)
(* vamp_sym                                                                *)
(***************************************************************************)
\* Sym(self.vector.len() as u32): the cast truncates only beyond 2^32 entries,
\* far outside the tables modelled here.
\* format!("#{}", n)
FormatPrivate(n) == "#" \o ToString(n)

InternerNew == [map |-> <<>>, vector |-> <<>>]

MapInsert(m, k, v) == [x \in (DOMAIN m) \cup {k} |-> IF x = k THEN v ELSE m[x]]

\* Interner::intern: the interner afterwards and the returned Sym.
intern_always_new(i, string) ==
    LET symbol == Len(i.vector) IN
    [interner |-> [map |-> MapInsert(i.map, string, symbol),
                   vector |-> Append(i.vector, string)],
     sym |-> symbol]
intern(i, string) ==
    IF string \in DOMAIN i.map
    THEN [interner |-> i, sym |-> i.map[string]]
    ELSE LET symbol == Len(i.vector) IN
         [interner |-> [map |-> MapInsert(i.map, string, symbol),
                        vector |-> Append(i.vector, string)],
          sym |-> symbol]

\* Interner::private
private(i) ==
    LET n == Len(i.vector)
        string == FormatPrivate(n) IN
    [interner |-> [map |-> MapInsert(i.map, string, n),
                   vector |-> Append(i.vector, string)],
     sym |-> n]

\* Interner::lookup (callers only pass handles the interner returned)
lookup(i, symbol) == i.vector[symbol + 1]

Strings == {"", "abc", "#0", "#1", "#2"}

InternHistNew == [first |-> <<>>, order |-> <<>>, given |-> {}, ret |-> [op |-> "new"]]

InternCall ==
    \E s \in Strings :
        LET r == intern(interner, s) IN
        /\ Len(interner.vector) < MaxSyms \/ s \in DOMAIN interner.map
        /\ interner' = r.interner
        /\ internHist' = [internHist EXCEPT
               !.first = IF s \in DOMAIN @ THEN @ ELSE MapInsert(@, s, r.sym),
               !.order = IF s \in DOMAIN internHist.first THEN @ ELSE Append(@, s),
               !.given = @ \cup {r.sym},
               !.ret = [op |-> "intern", arg |-> s, res |-> r.sym,
                        known |-> s \in DOMAIN internHist.first]]

PrivateCall ==
    LET r == private(interner) IN
    /\ Len(interner.vector) < MaxSyms
    /\ interner' = r.interner
    /\ internHist' = [internHist EXCEPT
           !.given = @ \cup {r.sym},
           !.ret = [op |-> "private", res |-> r.sym,
                    fresh |-> r.sym \notin internHist.given]]

LookupCall ==
    \E symbol \in internHist.given :
        /\ interner' = interner
        /\ internHist' = [internHist EXCEPT
               !.ret = [op |-> "lookup", arg |-> symbol,
                        res |-> lookup(interner, symbol)]]

(***************************************************************************)
(* vamp_syntax::lexer                                                      *)
(***************************************************************************)
\* The byte first() and second() return past the end of the source (b'\0').
NUL == "NUL"
Lower == {"a", "b", "c", "d", "e", "f", "g", "h", "i", "j", "k", "l", "m",
          "n", "o", "p", "q", "r", "s", "t", "u", "v", "w", "x", "y", "z"}
Upper == {"A", "B", "C", "D", "E", "F", "G", "H", "I", "J", "K", "L", "M",
          "N", "O", "P", "Q", "R", "S", "T", "U", "V", "W", "X", "Y", "Z"}
Digits == {"0", "1", "2", "3", "4", "5", "6", "7", "8", "9"}
BinDigits == {"0", "1"}
OctDigits == {"0", "1", "2", "3", "4", "5", "6", "7"}
HexDigits == Digits \cup {"a", "b", "c", "d", "e", "f", "A", "B", "C", "D", "E", "F"}
IdentStart == Lower \cup Upper \cup {"_"}
IdentCont == IdentStart \cup Digits
\* u8::is_ascii_whitespace
AsciiWhitespace == {" ", "\t", "\n", "\f", "\r"}

\* The kinds after which a newline sets auto_insert_comma (Tokens::bump).
StatementClosers == {"RParen", "RBracket", "RBrace", "Ident", "Sym", "Int", "Float", "Str"}

TokensNew == [start |-> 0, end |-> 0, last_token_kind |-> "None",
              auto_insert_comma |-> FALSE]

byte_at(src, i) == IF i < Len(src) THEN src[i + 1] ELSE NUL
first(src, st) == byte_at(src, st.end)
second(src, st) == byte_at(src, st.end + 1)

\* &self.source[self.span]
Slice(src, st) == SubSeq(src, st.start + 1, st.end)

bump(src, st) ==
    IF first(src, st) = "\n"
    THEN [st EXCEPT !.auto_insert_comma = st.last_token_kind \in StatementClosers,
                    !.end = @ + 1]
    ELSE [st EXCEPT !.end = @ + 1]

\* bump_while over a set of bytes that does not hold NUL (so it ends at the
\* end of the source at the latest).
RECURSIVE bump_while(_, _, _)
bump_while(src, st, set) ==
    IF first(src, st) \in set THEN bump_while(src, bump(src, st), set) ELSE st

\* Tokens::ok / Tokens::err / None, each with the lexer state it leaves.
ok(st, kind) ==
    [st |-> [st EXCEPT !.last_token_kind = kind],
     out |-> [tag |-> "ok", kind |-> kind, start |-> st.start, end |-> st.end]]
err(st, kind) ==
    [st |-> st, out |-> [tag |-> "err", kind |-> kind, start |-> st.start, end |-> st.end]]
none(st) == [st |-> st, out |-> [tag |-> "none"]]

\* A one-byte lexeme c of kind k1, or the two-byte lexeme c d of kind k2.
one_or_two(src, st1, d, k2, k1) ==
    IF first(src, st1) = d THEN ok(bump(src, st1), k2) ELSE ok(st1, k1)

punctuation(src, st) ==
    LET c == first(src, st)
        st1 == bump(src, st) IN
    CASE c = "(" -> ok(st1, "LParen")
      [] c = ")" -> ok(st1, "RParen")
      [] c = "[" -> ok(st1, "LBracket")
      [] c = "]" -> ok(st1, "RBracket")
      [] c = "{" -> ok(st1, "LBrace")
      [] c = "}" -> ok(st1, "RBrace")
      [] c = "," -> ok(st1, "Comma")
      [] c = ":" -> ok(st1, "Colon")
      [] c = "." -> ok(st1, "Period")
      [] c = "+" -> ok(st1, "Plus")
      [] c = "-" -> ok(st1, "Minus")
      [] c = "*" -> one_or_two(src, st1, "*", "StarStar", "Star")
      [] c = "/" -> ok(st1, "Slash")
      [] c = "%" -> ok(st1, "Percent")
      [] c = "=" -> one_or_two(src, st1, "=", "EqEq", "Eq")
      [] c = "!" -> one_or_two(src, st1, "=", "NotEq", "Not")
      [] c = ">" -> IF first(src, st1) = ">" THEN ok(bump(src, st1), "GtGt")
                    ELSE one_or_two(src, st1, "=", "GtEq", "Gt")
      [] c = "<" -> IF first(src, st1) = "<" THEN ok(bump(src, st1), "LtLt")
                    ELSE one_or_two(src, st1, "=", "LtEq", "Lt")
      [] c = "&" -> one_or_two(src, st1, "&", "AndAnd", "And")
      [] c = "|" -> one_or_two(src, st1, "|", "OrOr", "Or")
      [] c = "^" -> ok(st1, "Caret")
      [] c = "~" -> ok(st1, "Tilde")
      [] OTHER -> none(st)

Keyword(slice) ==
    CASE slice = <<"u", "s", "e">> -> "Use"
      [] slice = <<"l", "e", "t">> -> "Let"
      [] slice = <<"i", "f">> -> "If"
      [] slice = <<"e", "l", "s", "e">> -> "Else"
      [] slice = <<"f", "o", "r">> -> "For"
      [] slice = <<"t", "r", "u", "e">> -> "True"
      [] slice = <<"f", "a", "l", "s", "e">> -> "False"
      [] OTHER -> "Ident"

ident(src, st) ==
    IF first(src, st) \in IdentStart
    THEN LET st2 == bump_while(src, bump(src, st), IdentCont) IN
         ok(st2, Keyword(Slice(src, st2)))
    ELSE none(st)

ctx_ident(src, st) ==
    IF first(src, st) = "@"
    THEN ok(bump_while(src, bump(src, st), IdentCont), "CtxIdent")
    ELSE none(st)

\* The loop of symbol_or_string after the opening delimiter.
RECURSIVE string_loop(_, _, _, _)
string_loop(src, st, delimiter, kind) ==
    IF first(src, st) = NUL THEN err(st, "StringUnterminated")
    ELSE IF first(src, st) = "\\"
    THEN LET st1 == bump(src, st) IN
         IF first(src, st1) # NUL
         THEN string_loop(src, bump(src, st1), delimiter, kind)
         ELSE err(st1, "StringUnterminated")
    ELSE IF first(src, st) = delimiter THEN ok(bump(src, st), kind)
    ELSE string_loop(src, bump(src, st), delimiter, kind)

symbol_or_string(src, st) ==
    IF first(src, st) \in {"'", "\""}
    THEN string_loop(src, bump(src, st), first(src, st),
                     IF first(src, st) = "'" THEN "Sym" ELSE "Str")
    ELSE none(st)

\* The exponent of a float: `e`, an optional `-`, digits.
exponent(src, st) ==
    LET st1 == bump(src, st)
        st2 == IF first(src, st1) = "-" THEN bump(src, st1) ELSE st1 IN
    bump_while(src, st2, Digits)

int_or_float(src, st) ==
    IF first(src, st) = "0" /\ second(src, st) = "b"
    THEN ok(bump_while(src, bump(src, bump(src, st)), BinDigits), "Int")
    ELSE IF first(src, st) = "0" /\ second(src, st) = "o"
    THEN ok(bump_while(src, bump(src, bump(src, st)), OctDigits), "Int")
    ELSE IF first(src, st) = "0" /\ second(src, st) = "x"
    THEN ok(bump_while(src, bump(src, bump(src, st)), HexDigits), "Int")
    ELSE IF first(src, st) \in Digits
    THEN LET st1 == bump_while(src, bump(src, st), Digits) IN
         IF first(src, st1) = "."
         THEN LET st2 == bump_while(src, bump(src, st1), Digits) IN
              IF first(src, st2) = "e" THEN ok(exponent(src, st2), "Float")
              ELSE ok(st2, "Float")
         ELSE IF first(src, st1) = "e" THEN ok(exponent(src, st1), "Float")
         ELSE ok(st1, "Int")
    ELSE none(st)

\* Tokens::error
error(src, st) ==
    IF first(src, st) # NUL THEN err(bump(src, st), "InvalidChar") ELSE none(st)

or_else(r, next_r) == IF r.out.tag # "none" THEN r ELSE next_r

\* Tokens::next after whitespace() has returned.
scan(src, st0) ==
    LET st == [st0 EXCEPT !.start = st0.end] IN
    IF st.auto_insert_comma
    THEN LET comma == ok(st, "Comma") IN
         [comma EXCEPT !.st.auto_insert_comma = FALSE]
    ELSE or_else(punctuation(src, st),
         or_else(ident(src, st),
         or_else(ctx_ident(src, st),
         or_else(symbol_or_string(src, st),
         or_else(int_or_float(src, st),
                 error(src, st))))))

\* The bytes the model checker draws sources from.
SourceBytes == {"x", "+", " ", "\n", "#", "\""}
Sources == UNION {[1..n -> SourceBytes] : n \in 0..MaxSrcLen}
\* Sources that may hold the byte 0, which a &str can hold like any other
\* ASCII byte.
ByteSourceBytes == {"x", ",", " ", "\n", "#", NUL}
ByteSources == UNION {[1..n -> ByteSourceBytes] : n \in 0..MaxSrcLen}

\* whitespace(): bump_while(is_ascii_whitespace), one byte.
LexWhitespaceBump ==
    /\ lexPc = "whitespace"
    /\ first(source, lexer) \in AsciiWhitespace
    /\ lexer' = bump(source, lexer)
    /\ UNCHANGED <<source, tokens, lexPc, lexResult>>

\* whitespace(): bump_if(c == b'#') opens a comment.
LexCommentOpen ==
    /\ lexPc = "whitespace"
    /\ first(source, lexer) = "#"
    /\ lexer' = bump(source, lexer)
    /\ lexPc' = "comment"
    /\ UNCHANGED <<source, tokens, lexResult>>

\* Every cursor position past the end of the source reads NUL, so the model
\* keeps MaxOverrun of them and folds the positions beyond onto the first.
FoldOverrun(src, st) ==
    IF st.end > Len(src) + MaxOverrun THEN [st EXCEPT !.end = Len(src) + 1] ELSE st

\* whitespace(): bump_while(c != b'\n'), one byte.  Past the end of the
\* source first() is NUL, which is not a newline either.
LexCommentBump ==
    /\ lexPc = "comment"
    /\ first(source, lexer) # "\n"
    /\ lexer' = FoldOverrun(source, bump(source, lexer))
    /\ UNCHANGED <<source, tokens, lexPc, lexResult>>

\* whitespace(): the comment ends at a newline, the loop goes round.
LexCommentClose ==
    /\ lexPc = "comment"
    /\ first(source, lexer) = "\n"
    /\ lexPc' = "whitespace"
    /\ UNCHANGED <<source, lexer, tokens, lexResult>>

\* whitespace() returns: neither whitespace nor `#` is next.
LexWhitespaceBreak ==
    /\ lexPc = "whitespace"
    /\ first(source, lexer) \notin AsciiWhitespace \cup {"#"}
    /\ lexPc' = "token"
    /\ UNCHANGED <<source, lexer, tokens, lexResult>>

\* The rest of Tokens::next and one round of tokenize's loop: push the token,
\* return the error, or return the vector at the end of the stream.
LexToken ==
    /\ lexPc = "token"
    /\ LET r == scan(source, lexer) IN
       /\ lexer' = r.st
       /\ tokens' = IF r.out.tag = "ok"
                    THEN Append(tokens, [kind |-> r.out.kind, start |-> r.out.start,
                                         end |-> r.out.end])
                    ELSE tokens
       /\ lexPc' = IF r.out.tag = "ok" THEN "whitespace" ELSE "done"
       /\ lexResult' = CASE r.out.tag = "ok" -> "running"
                         [] r.out.tag = "err" -> r.out.kind
                         [] OTHER -> "Ok"
    /\ UNCHANGED source

(***************************************************************************)
(* vamp_syntax::ast                                                        *)
(***************************************************************************)
\* ExprKind (Expr.ty is always Ty::Unknown after parsing and is left out).
VoidE == [kind |-> "Void"]
BlockE(stmts) == [kind |-> "Block", stmts |-> stmts]
TupleE(t) == [kind |-> "Tuple", tuple |-> t]
ListE(items) == [kind |-> "List", items |-> items]
CallE(f, args) == [kind |-> "Call", f |-> f, args |-> args]
FnE(params, body) == [kind |-> "Fn", params |-> params, body |-> body]
IdentE(sym) == [kind |-> "Ident", sym |-> sym]
CtxIdentE(sym) == [kind |-> "CtxIdent", ctx_sym |-> sym]
SymE(sym) == [kind |-> "Sym", lit_sym |-> sym]
StrE(str) == [kind |-> "Str", str |-> str]
IntE(i) == [kind |-> "Int", int |-> i]
FloatE(f) == [kind |-> "Float", float |-> f]
BoolE(b) == [kind |-> "Bool", bool |-> b]
UnOpE(op, e) == [kind |-> "UnOp", un_op |-> op, operand |-> e]
BinOpE(op, l, r) == [kind |-> "BinOp", bin_op |-> op, l |-> l, r |-> r]
IfElseE(c, t, e) == [kind |-> "IfElse", cond |-> c, if_expr |-> t, else_expr |-> e]

\* Stmt
LetS(pat, e) == [stmt |-> "Let", pat |-> pat, expr |-> e]
ExprS(e) == [stmt |-> "Expr", expr |-> e]

\* Pat
TupleP(t) == [pat |-> "Tuple", tuple |-> t]
IdentP(sym) == [pat |-> "Ident", sym |-> sym]
CtxIdentP(sym) == [pat |-> "CtxIdent", ctx_sym |-> sym]
SymP(sym) == [pat |-> "Sym", lit_sym |-> sym]
StrP(str) == [pat |-> "Str", str |-> str]
IntP(i) == [pat |-> "Int", int |-> i]
BoolP(b) == [pat |-> "Bool", bool |-> b]
FloatP(f) == [pat |-> "Float", float |-> f]
ListP(items) == [pat |-> "List", items |-> items]
WildP == [pat |-> "Wild"]

\* TupleEntry
Pos(v) == [entry |-> "Pos", value |-> v]
Named(key, v) == [entry |-> "Named", key |-> key, value |-> v]

\* impl FromIterator<TupleEntry<T>> for Tuple<T>
RECURSIVE from_iter_loop(_, _)
from_iter_loop(t, entries) ==
    IF entries = <<>> THEN t
    ELSE LET entry == Head(entries) IN
         from_iter_loop(IF entry.entry = "Pos" THEN push(t, entry.value)
                        ELSE insert(t, entry.key, entry.value).tuple,
                        Tail(entries))
from_iter(entries) == from_iter_loop(TupleNew, entries)

\* Tuple::iter: the entries, positional first, then named in key order.
iter(t) ==
    [i \in 1..len(t) |->
        IF i - 1 < named_offset(t) THEN Pos(t.data[i])
        ELSE Named(t.keys[i - named_offset(t)], t.data[i])]

(***************************************************************************)
(* vamp_syntax::parser                                                     *)
(* Every production takes the source, the token vector and the parser     *)
(* state p = [index, interner] and returns Result<Option<T>> with the      *)
(* parser state it leaves: "some", "none", "err" or "panic".               *)
(***************************************************************************)
PSome(v, p) == [tag |-> "some", val |-> v, p |-> p]
PNone(p) == [tag |-> "none", p |-> p]
PErr(kind, p) == [tag |-> "err", err |-> kind, p |-> p]
PPanic(p) == [tag |-> "panic", p |-> p]
\* What the `?` operator returns early on (a panic unwinds likewise).
Fail(r) == r.tag \in {"err", "panic"}

ParserNew(i) == [index |-> 0, interner |-> i]

\* The &str of a byte slice.
RECURSIVE StrOf(_)
StrOf(bytes) == IF bytes = <<>> THEN "" ELSE Head(bytes) \o StrOf(Tail(bytes))

accept(toks, p, kind) ==
    IF p.index < Len(toks) /\ toks[p.index + 1].kind = kind
    THEN PSome(toks[p.index + 1], [p EXCEPT !.index = @ + 1])
    ELSE PNone(p)

accept_slice(src, toks, p, kind) ==
    LET a == accept(toks, p, kind) IN
    IF a.tag = "some" THEN PSome(SubSeq(src, a.val.start + 1, a.val.end), a.p) ELSE a

accept_sym(src, toks, p, kind) ==
    LET a == accept_slice(src, toks, p, kind) IN
    IF a.tag = "some"
    THEN LET r == intern(a.p.interner, StrOf(a.val)) IN
         PSome(r.sym, [a.p EXCEPT !.interner = r.interner])
    ELSE a

UnOpTable ==
    [Minus |-> [op |-> "Neg", r_prec |-> 20],
     Not |-> [op |-> "Not", r_prec |-> 20],
     Tilde |-> [op |-> "BitNot", r_prec |-> 20]]

accept_un_op(toks, p) ==
    IF p.index < Len(toks) /\ toks[p.index + 1].kind \in DOMAIN UnOpTable
    THEN PSome(UnOpTable[toks[p.index + 1].kind], [p EXCEPT !.index = @ + 1])
    ELSE PNone(p)

BinOpRow(op, l, r) == [op |-> op, l_prec |-> l, r_prec |-> r]
BinOpTableAllRight ==
    [OrOr |-> BinOpRow("Or", 1, 0), AndAnd |-> BinOpRow("And", 3, 2),
     EqEq |-> BinOpRow("Eq", 5, 4), NotEq |-> BinOpRow("NotEq", 5, 4),
     Lt |-> BinOpRow("Lt", 5, 4), LtEq |-> BinOpRow("LtEq", 5, 4),
     Gt |-> BinOpRow("Gt", 5, 4), GtEq |-> BinOpRow("GtEq", 5, 4),
     Or |-> BinOpRow("BitOr", 7, 6), Caret |-> BinOpRow("Xor", 9, 8),
     And |-> BinOpRow("BitAnd", 11, 10),
     LtLt |-> BinOpRow("ShiftL", 13, 12), GtGt |-> BinOpRow("ShiftR", 13, 12),
     Plus |-> BinOpRow("Add", 15, 14), Minus |-> BinOpRow("Sub", 15, 14),
     Star |-> BinOpRow("Mul", 17, 16), Slash |-> BinOpRow("Div", 17, 16),
     Percent |-> BinOpRow("Mod", 17, 16),
     StarStar |-> BinOpRow("Exp", 19, 18), Period |-> BinOpRow("Dot", 21, 20)]
BinOpTable ==
    [OrOr |-> BinOpRow("Or", 0, 1), AndAnd |-> BinOpRow("And", 2, 3),
     EqEq |-> BinOpRow("Eq", 4, 5), NotEq |-> BinOpRow("NotEq", 4, 5),
     Lt |-> BinOpRow("Lt", 4, 5), LtEq |-> BinOpRow("LtEq", 4, 5),
     Gt |-> BinOpRow("Gt", 4, 5), GtEq |-> BinOpRow("GtEq", 4, 5),
     Or |-> BinOpRow("BitOr", 6, 7), Caret |-> BinOpRow("Xor", 8, 9),
     And |-> BinOpRow("BitAnd", 10, 11),
     LtLt |-> BinOpRow("ShiftL", 12, 13), GtGt |-> BinOpRow("ShiftR", 12, 13),
     Plus |-> BinOpRow("Add", 14, 15), Minus |-> BinOpRow("Sub", 14, 15),
     Star |-> BinOpRow("Mul", 16, 17), Slash |-> BinOpRow("Div", 16, 17),
     Percent |-> BinOpRow("Mod", 16, 17),
     StarStar |-> BinOpRow("Exp", 18, 19), Period |-> BinOpRow("Dot", 20, 21)]

accept_bin_op(toks, p) ==
    IF p.index < Len(toks) /\ toks[p.index + 1].kind \in DOMAIN BinOpTable
    THEN PSome(BinOpTable[toks[p.index + 1].kind], [p EXCEPT !.index = @ + 1])
    ELSE PNone(p)

\* Parser::invalid_token (the span of the error is not modelled)
invalid_token(p) == PErr("InvalidToken", p)

p_ident(src, toks, p) == accept_sym(src, toks, p, "Ident")
p_ctx_ident(src, toks, p) == accept_sym(src, toks, p, "CtxIdent")

\* The 128 ASCII characters by code point (index code + 1); control
\* characters that TLA+ strings cannot spell carry a bracketed name.
Ascii ==
    <<
      "<NUL>", "<01>", "<02>", "<03>", "<04>", "<05>", "<06>", "<BEL>",
      "<BS>", "\t", "\n", "<VT>", "\f", "\r", "<0E>", "<0F>",
      "<10>", "<11>", "<12>", "<13>", "<14>", "<15>", "<16>", "<17>",
      "<18>", "<19>", "<1A>", "<1B>", "<1C>", "<1D>", "<1E>", "<1F>",
      " ", "!", "\"", "#", "$", "%", "&", "'",
      "(", ")", "*", "+", ",", "-", ".", "/",
      "0", "1", "2", "3", "4", "5", "6", "7",
      "8", "9", ":", ";", "<", "=", ">", "?",
      "@", "A", "B", "C", "D", "E", "F", "G",
      "H", "I", "J", "K", "L", "M", "N", "O",
      "P", "Q", "R", "S", "T", "U", "V", "W",
      "X", "Y", "Z", "[", "\\", "]", "^", "_",
      "<GRAVE>", "a", "b", "c", "d", "e", "f", "g",
      "h", "i", "j", "k", "l", "m", "n", "o",
      "p", "q", "r", "s", "t", "u", "v", "w",
      "x", "y", "z", "{", "|", "}", "~", "<DEL>"
    >>

HexVal(c) ==
    IF c \in Digits THEN CHOOSE n \in 0..9 : Ascii[49 + n] = c
    ELSE IF c \in {"a", "b", "c", "d", "e", "f"} THEN 10 + (CHOOSE n \in 0..5 : Ascii[98 + n] = c)
    ELSE 10 + (CHOOSE n \in 0..5 : Ascii[66 + n] = c)

SimpleEscapes ==
    [x \in {"\\", "\"", "'", "a", "b", "t", "v", "f", "n", "r", "0"} |->
        CASE x = "\\" -> "\\" [] x = "\"" -> "\"" [] x = "'" -> "'"
          [] x = "a" -> Ascii[8] [] x = "b" -> Ascii[9] [] x = "t" -> "\t"
          [] x = "v" -> Ascii[12] [] x = "f" -> "\f" [] x = "n" -> "\n"
          [] x = "r" -> "\r" [] x = "0" -> Ascii[1]]

\* The loop of Parser::unescape over the characters between the quotes;
\* the result is [ok, string].
RECURSIVE unescape_loop(_, _)
unescape_loop(chars, string) ==
    IF chars = <<>> THEN [ok |-> TRUE, string |-> string]
    ELSE IF Head(chars) = "\\" THEN
        IF Len(chars) < 2 THEN [ok |-> FALSE, string |-> "panic"]
        ELSE LET c == chars[2] IN
             IF c \in DOMAIN SimpleEscapes
             THEN unescape_loop(SubSeq(chars, 3, Len(chars)), Append(string, SimpleEscapes[c]))
             ELSE IF c = "x" /\ Len(chars) >= 4 /\ chars[3] \in HexDigits /\ chars[4] \in HexDigits
                     /\ 16 * HexVal(chars[3]) + HexVal(chars[4]) <= 127
             THEN unescape_loop(SubSeq(chars, 5, Len(chars)),
                                Append(string, Ascii[16 * HexVal(chars[3]) + HexVal(chars[4]) + 1]))
             ELSE [ok |-> FALSE, string |-> "StringEscSeqInvalid"]
    ELSE unescape_loop(Tail(chars), Append(string, Head(chars)))

unescape(src, span) ==
    LET slice == SubSeq(src, span.start + 1, span.end) IN
    unescape_loop(SubSeq(slice, 2, Len(slice) - 1), <<>>)

symbol(src, toks, p) ==
    LET a == accept(toks, p, "Sym") IN
    IF a.tag = "some"
    THEN LET u == unescape(src, a.val) IN
         IF ~u.ok THEN (IF u.string = "panic" THEN PPanic(a.p) ELSE PErr(u.string, a.p))
         ELSE LET r == intern(a.p.interner, StrOf(u.string)) IN
              PSome(r.sym, [a.p EXCEPT !.interner = r.interner])
    ELSE a

string(src, toks, p) ==
    LET a == accept(toks, p, "Str") IN
    IF a.tag = "some"
    THEN LET u == unescape(src, a.val) IN
         IF ~u.ok THEN (IF u.string = "panic" THEN PPanic(a.p) ELSE PErr(u.string, a.p))
         ELSE PSome(u.string, a.p)
    ELSE a

\* The model's i64::MAX: checked_mul and checked_add fail above it.
IntMax == 32767

\* value.checked_mul(radix)?.checked_add(digit)? over the digits
\* Accumulation with wrapping_mul / wrapping_add in place of the checked ones.
RECURSIVE int_loop_wrapping(_, _, _)
int_loop_wrapping(digits, radix, value) ==
    IF digits = <<>> THEN Some(value)
    ELSE int_loop_wrapping(Tail(digits), radix,
                           (value * radix + HexVal(Head(digits))) % (IntMax + 1))

RECURSIVE int_loop(_, _, _)
int_loop(digits, radix, value) ==
    IF digits = <<>> THEN Some(value)
    ELSE IF value * radix > IntMax \/ value * radix + HexVal(Head(digits)) > IntMax THEN None
    ELSE int_loop(Tail(digits), radix, value * radix + HexVal(Head(digits)))

int(src, toks, p) ==
    LET a == accept_slice(src, toks, p, "Int") IN
    IF a.tag = "some"
    THEN LET slice == a.val
             prefix == IF Len(slice) >= 2 THEN SubSeq(slice, 1, 2) ELSE <<>>
             rest == SubSeq(slice, 3, Len(slice))
             value == IF prefix = <<"0", "b">> THEN int_loop(rest, 2, 0)
                      ELSE IF prefix = <<"0", "o">> THEN int_loop(rest, 8, 0)
                      ELSE IF prefix = <<"0", "x">> THEN int_loop(rest, 16, 0)
                      ELSE int_loop(slice, 10, 0) IN
         IF value.some THEN PSome(value.val, a.p) ELSE PErr("IntInvalid", a.p)
    ELSE a

\* str::parse::<f64> is kept symbolic: a Float is identified by its lexeme.
float(src, toks, p) ==
    LET a == accept_slice(src, toks, p, "Float") IN
    IF a.tag = "some" THEN PSome(StrOf(a.val), a.p) ELSE a

bool(toks, p) ==
    LET t == accept(toks, p, "True") IN
    IF t.tag = "some" THEN PSome(TRUE, t.p)
    ELSE LET f == accept(toks, p, "False") IN
         IF f.tag = "some" THEN PSome(FALSE, f.p) ELSE PNone(p)

\* `let v = x; F(v)`: x is evaluated once and F applied to its value.
Then(x, F(_)) == CHOOSE y \in {F(v) : v \in {x}} : TRUE
\* `let v = x?; F(v)`: an error or a panic of x is returned as it is.
Try(x, F(_)) == CHOOSE y \in {IF Fail(v) THEN v ELSE F(v) : v \in {x}} : TRUE

RECURSIVE pat_tuple_entry(_, _, _), pat_entries_loop(_, _, _, _),
          pat_tuple(_, _, _), pat(_, _, _)

\* The patterns return Option, not Result: a None may leave the index
\* advanced (pat_tuple returns None through `?` when `)` is missing).
pat_tuple_entry(src, toks, p) ==
    Then(p_ident(src, toks, p), LAMBDA id :
        IF id.tag = "some" THEN
            Then(accept(toks, id.p, "Colon"), LAMBDA c :
                IF c.tag = "some"
                THEN Then(pat(src, toks, c.p), LAMBDA pt :
                         PSome(Named(id.val, IF pt.tag = "some" THEN pt.val
                                             ELSE IdentP(id.val)), pt.p))
                ELSE PSome(Pos(IdentP(id.val)), id.p))
        ELSE Then(pat(src, toks, id.p), LAMBDA pt :
                 IF pt.tag = "some" THEN PSome(Pos(pt.val), pt.p) ELSE PNone(pt.p)))

\* while self.accept(Comma).is_some() { if let Some(e) = self.pat_tuple_entry() { push } }
pat_entries_loop(src, toks, p, entries) ==
    Then(accept(toks, p, "Comma"), LAMBDA c :
        IF c.tag = "some"
        THEN Then(pat_tuple_entry(src, toks, c.p), LAMBDA e :
                 pat_entries_loop(src, toks, e.p,
                                  IF e.tag = "some" THEN Append(entries, e.val)
                                  ELSE entries))
        ELSE PSome(entries, c.p))

\* if let Some(e) = self.pat_tuple_entry() { push; while ... }
pat_entries(src, toks, p) ==
    Then(pat_tuple_entry(src, toks, p), LAMBDA e0 :
        IF e0.tag = "some" THEN pat_entries_loop(src, toks, e0.p, <<e0.val>>)
        ELSE PSome(<<>>, e0.p))

pat_tuple(src, toks, p) ==
    Then(accept(toks, p, "LParen"), LAMBDA l :
        IF l.tag = "some" THEN
            Then(pat_entries(src, toks, l.p), LAMBDA es :
                Then(accept(toks, es.p, "RParen"), LAMBDA r :
                    IF r.tag = "some" THEN PSome(from_iter(es.val), r.p)
                    ELSE PNone(r.p)))
        ELSE PNone(l.p))

pat(src, toks, p) ==
    Then(pat_tuple(src, toks, p), LAMBDA members :
        IF members.tag = "some" THEN PSome(TupleP(members.val), members.p)
        ELSE Then(p_ident(src, toks, members.p), LAMBDA id :
                 IF id.tag = "some" THEN PSome(IdentP(id.val), id.p)
                 ELSE Then(p_ctx_ident(src, toks, id.p), LAMBDA cid :
                          IF cid.tag = "some" THEN PSome(CtxIdentP(cid.val), cid.p)
                          ELSE PNone(cid.p))))

function_args(src, toks, p) ==
    Then(accept(toks, p, "Or"), LAMBDA o :
        IF o.tag = "some" THEN
            Then(pat_entries(src, toks, o.p), LAMBDA es :
                Then(accept(toks, es.p, "Or"), LAMBDA c :
                    IF c.tag = "some" THEN PSome(from_iter(es.val), c.p)
                    ELSE invalid_token(c.p)))
        ELSE PNone(o.p))

for_loop(toks, p) ==
    Then(accept(toks, p, "For"), LAMBDA f :
        IF f.tag = "some" THEN PPanic(f.p) ELSE PNone(f.p))

RECURSIVE tuple_entry(_, _, _), entries_loop(_, _, _, _), p_tuple(_, _, _),
          exprs_loop(_, _, _, _), list(_, _, _), stmt(_, _, _),
          stmts_loop(_, _, _, _), stmts(_, _, _), block(_, _, _),
          atom(_, _, _), function(_, _, _), if_else(_, _, _),
          call_loop(_, _, _, _), bin_loop_flat(_, _, _, _, _), bin_loop(_, _, _, _, _),
          expr_with_precedence(_, _, _, _), expr(_, _, _)

\* The identifier tried before `:` stays interned when the index is reset.
tuple_entry(src, toks, p) ==
    Then(p_ident(src, toks, p), LAMBDA id :
        Then(accept(toks, id.p, "Colon"), LAMBDA c :
            IF id.tag = "some" /\ c.tag = "some"
            THEN Try(expr(src, toks, c.p), LAMBDA e :
                     PSome(Named(id.val, IF e.tag = "some" THEN e.val
                                         ELSE IdentE(id.val)), e.p))
            ELSE Try(expr(src, toks, [id.p EXCEPT !.index = p.index]), LAMBDA e :
                     IF e.tag = "some" THEN PSome(Pos(e.val), e.p) ELSE PNone(e.p))))

\* while self.accept(Comma).is_some() { if let Some(e) = self.tuple_entry()? { push } }
entries_loop(src, toks, p, entries) ==
    Then(accept(toks, p, "Comma"), LAMBDA c :
        IF c.tag = "some"
        THEN Try(tuple_entry(src, toks, c.p), LAMBDA e :
                 entries_loop(src, toks, e.p,
                              IF e.tag = "some" THEN Append(entries, e.val)
                              ELSE entries))
        ELSE PSome(entries, c.p))

p_tuple(src, toks, p) ==
    Then(accept(toks, p, "LParen"), LAMBDA l :
        IF l.tag = "some" THEN
            Try(tuple_entry(src, toks, l.p), LAMBDA e0 :
                Try(IF e0.tag = "some" THEN entries_loop(src, toks, e0.p, <<e0.val>>)
                    ELSE PSome(<<>>, e0.p), LAMBDA es :
                    Then(accept(toks, es.p, "RParen"), LAMBDA r :
                        IF r.tag = "some" THEN PSome(from_iter(es.val), r.p)
                        ELSE PErr("Delimiters", r.p))))
        ELSE PNone(l.p))

\* while self.accept(Comma).is_some() { if let Some(e) = self.expr()? { push } }
exprs_loop(src, toks, p, exprs) ==
    Then(accept(toks, p, "Comma"), LAMBDA c :
        IF c.tag = "some"
        THEN Try(expr(src, toks, c.p), LAMBDA e :
                 exprs_loop(src, toks, e.p,
                            IF e.tag = "some" THEN Append(exprs, e.val) ELSE exprs))
        ELSE PSome(exprs, c.p))

list(src, toks, p) ==
    Then(accept(toks, p, "LBracket"), LAMBDA l :
        IF l.tag = "some" THEN
            Try(expr(src, toks, l.p), LAMBDA e0 :
                Try(IF e0.tag = "some" THEN exprs_loop(src, toks, e0.p, <<e0.val>>)
                    ELSE PSome(<<>>, e0.p), LAMBDA es :
                    Then(accept(toks, es.p, "RBracket"), LAMBDA r :
                        IF r.tag = "some" THEN PSome(es.val, r.p)
                        ELSE PErr("Delimiters", r.p))))
        ELSE PNone(l.p))

stmt(src, toks, p) ==
    Then(accept(toks, p, "Let"), LAMBDA l :
        IF l.tag = "some" THEN
            Then(pat(src, toks, l.p), LAMBDA pattern :
                IF pattern.tag # "some" THEN invalid_token(pattern.p) ELSE
                Then(pat_tuple(src, toks, pattern.p), LAMBDA args :
                    Then(accept(toks, args.p, "Eq"), LAMBDA eq :
                        IF eq.tag # "some" THEN invalid_token(eq.p) ELSE
                        Try(expr(src, toks, eq.p), LAMBDA e :
                            IF e.tag = "none" THEN invalid_token(e.p)
                            ELSE IF args.tag = "some"
                            THEN PSome(LetS(pattern.val, FnE(args.val, e.val)), e.p)
                            ELSE PSome(LetS(pattern.val, e.val), e.p)))))
        ELSE Try(expr(src, toks, l.p), LAMBDA e :
                 IF e.tag = "some" THEN PSome(ExprS(e.val), e.p) ELSE e))

\* while self.accept(Comma).is_some() { if let Some(s) = self.stmt()? { push } }
stmts_loop(src, toks, p, statements) ==
    Then(accept(toks, p, "Comma"), LAMBDA c :
        IF c.tag = "some"
        THEN Try(stmt(src, toks, c.p), LAMBDA st :
                 stmts_loop(src, toks, st.p,
                            IF st.tag = "some" THEN Append(statements, st.val)
                            ELSE statements))
        ELSE PSome(statements, c.p))

stmts(src, toks, p) ==
    Try(stmt(src, toks, p), LAMBDA st :
        IF st.tag = "some" THEN stmts_loop(src, toks, st.p, <<st.val>>)
        ELSE PSome(<<>>, st.p))

\* A block that is always a Block node of its statements.
block_always_node(src, toks, p) ==
    Then(accept(toks, p, "LBrace"), LAMBDA l :
        IF l.tag = "some" THEN
            Try(stmts(src, toks, l.p), LAMBDA statements :
                Then(accept(toks, statements.p, "RBrace"), LAMBDA r :
                    IF r.tag # "some" THEN PErr("Delimiters", r.p)
                    ELSE PSome(BlockE(statements.val), r.p)))
        ELSE PNone(l.p))

block(src, toks, p) ==
    Then(accept(toks, p, "LBrace"), LAMBDA l :
        IF l.tag = "some" THEN
            Try(stmts(src, toks, l.p), LAMBDA statements :
                Then(accept(toks, statements.p, "RBrace"), LAMBDA r :
                    IF r.tag # "some" THEN PErr("Delimiters", r.p)
                    ELSE IF Len(statements.val) = 0 THEN PSome(VoidE, r.p)
                    ELSE IF Len(statements.val) = 1 /\ statements.val[1].stmt = "Expr"
                    THEN PSome(statements.val[1].expr, r.p)
                    ELSE PSome(BlockE(statements.val), r.p)))
        ELSE PNone(l.p))

atom(src, toks, p) ==
    Try(p_tuple(src, toks, p), LAMBDA t :
    IF t.tag = "some" THEN PSome(TupleE(t.val), t.p) ELSE
    Try(list(src, toks, t.p), LAMBDA l :
    IF l.tag = "some" THEN PSome(ListE(l.val), l.p) ELSE
    Try(block(src, toks, l.p), LAMBDA b :
    IF b.tag = "some" THEN b ELSE
    Then(p_ident(src, toks, b.p), LAMBDA id :
    IF id.tag = "some" THEN PSome(IdentE(id.val), id.p) ELSE
    Then(p_ctx_ident(src, toks, id.p), LAMBDA cid :
    IF cid.tag = "some" THEN PSome(CtxIdentE(cid.val), cid.p) ELSE
    Try(symbol(src, toks, cid.p), LAMBDA sy :
    IF sy.tag = "some" THEN PSome(SymE(sy.val), sy.p) ELSE
    Try(string(src, toks, sy.p), LAMBDA str :
    IF str.tag = "some" THEN PSome(StrE(str.val), str.p) ELSE
    Try(int(src, toks, str.p), LAMBDA i :
    IF i.tag = "some" THEN PSome(IntE(i.val), i.p) ELSE
    Then(float(src, toks, i.p), LAMBDA f :
    IF f.tag = "some" THEN PSome(FloatE(f.val), f.p) ELSE
    Then(bool(toks, f.p), LAMBDA b2 :
    IF b2.tag = "some" THEN PSome(BoolE(b2.val), b2.p) ELSE PNone(b2.p)))))))))))

function(src, toks, p) ==
    Try(function_args(src, toks, p), LAMBDA args :
        IF args.tag = "some"
        THEN Try(expr(src, toks, args.p), LAMBDA e :
                 PSome(FnE(args.val, IF e.tag = "some" THEN e.val ELSE VoidE), e.p))
        ELSE PNone(args.p))

if_else(src, toks, p) ==
    Then(accept(toks, p, "If"), LAMBDA i :
    IF i.tag # "some" THEN PNone(i.p) ELSE
    Try(expr(src, toks, i.p), LAMBDA condition :
    IF condition.tag = "none" THEN invalid_token(condition.p) ELSE
    Try(block(src, toks, condition.p), LAMBDA if_expr :
    IF if_expr.tag = "none" THEN invalid_token(if_expr.p) ELSE
    Then(accept(toks, if_expr.p, "Else"), LAMBDA el :
    IF el.tag # "some" THEN invalid_token(el.p) ELSE
    Try(if_else(src, toks, el.p), LAMBDA nested :
    IF nested.tag = "some"
    THEN PSome(IfElseE(condition.val, if_expr.val, nested.val), nested.p) ELSE
    Try(block(src, toks, nested.p), LAMBDA else_block :
    IF else_block.tag = "some"
    THEN PSome(IfElseE(condition.val, if_expr.val, else_block.val), else_block.p)
    ELSE invalid_token(else_block.p)))))))

\* while let Some(tuple) = self.tuple()? { left = Call(left, tuple) }
call_loop(src, toks, p, left) ==
    Try(p_tuple(src, toks, p), LAMBDA t :
        IF t.tag = "some" THEN call_loop(src, toks, t.p, CallE(left, t.val))
        ELSE PSome(left, t.p))

\* A binary-operator loop that ignores the right binding power: the right
\* operand is always parsed at the highest minimum precedence.
bin_loop_flat(src, toks, p, left, min_prec) ==
    Then(accept_bin_op(toks, p), LAMBDA o :
        IF o.tag = "some" THEN
            IF o.val.l_prec < min_prec
            THEN PSome(left, [o.p EXCEPT !.index = @ - 1])
            ELSE Try(expr_with_precedence(src, toks, o.p, 22), LAMBDA right :
                     IF right.tag = "some"
                     THEN bin_loop(src, toks, right.p,
                                   BinOpE(o.val.op, left, right.val), min_prec)
                     ELSE invalid_token(right.p))
        ELSE PSome(left, o.p))

\* The `loop` of expr_with_precedence that handles binary operators.
bin_loop(src, toks, p, left, min_prec) ==
    Then(accept_bin_op(toks, p), LAMBDA o :
        IF o.tag = "some" THEN
            IF o.val.l_prec < min_prec
            THEN PSome(left, [o.p EXCEPT !.index = @ - 1])
            ELSE Try(expr_with_precedence(src, toks, o.p, o.val.r_prec), LAMBDA right :
                     IF right.tag = "some"
                     THEN bin_loop(src, toks, right.p,
                                   BinOpE(o.val.op, left, right.val), min_prec)
                     ELSE invalid_token(right.p))
        ELSE PSome(left, o.p))

\* The first half of expr_with_precedence: a unary operator and its operand,
\* or an atom and the calls that follow it.
prefix(src, toks, p) ==
    Then(accept_un_op(toks, p), LAMBDA u :
        IF u.tag = "some" THEN
            Try(expr_with_precedence(src, toks, u.p, u.val.r_prec), LAMBDA right :
                IF right.tag = "some" THEN PSome(UnOpE(u.val.op, right.val), right.p)
                ELSE invalid_token(right.p))
        ELSE Try(atom(src, toks, u.p), LAMBDA a :
                 IF a.tag = "some" THEN call_loop(src, toks, a.p, a.val) ELSE a))

expr_with_precedence(src, toks, p, min_prec) ==
    Try(prefix(src, toks, p), LAMBDA left :
        IF left.tag = "some" THEN bin_loop(src, toks, left.p, left.val, min_prec)
        ELSE left)

expr(src, toks, p) ==
    Try(function(src, toks, p), LAMBDA f :
    IF f.tag = "some" THEN f ELSE
    Try(if_else(src, toks, f.p), LAMBDA i :
    IF i.tag = "some" THEN i ELSE
    Try(for_loop(toks, i.p), LAMBDA l :
    IF l.tag = "some" THEN l ELSE
    expr_with_precedence(src, toks, l.p, 0))))

\* parse_expr / parse_stmt after tokenize(source) returned Ok(toks):
\* [ok, expr or err, interner].
parse_expr(src, toks, i) ==
    Then(expr(src, toks, ParserNew(i)), LAMBDA e :
        IF e.tag = "panic" THEN [ok |-> FALSE, err |-> "panic", interner |-> e.p.interner]
        ELSE IF e.tag = "err" THEN [ok |-> FALSE, err |-> e.err, interner |-> e.p.interner]
        ELSE [ok |-> TRUE, expr |-> IF e.tag = "some" THEN e.val ELSE VoidE,
              interner |-> e.p.interner])

parse_stmt(src, toks, i) ==
    Then(stmt(src, toks, ParserNew(i)), LAMBDA st :
        IF st.tag = "panic" THEN [ok |-> FALSE, err |-> "panic", interner |-> st.p.interner]
        ELSE IF st.tag = "err" THEN [ok |-> FALSE, err |-> st.err, interner |-> st.p.interner]
        ELSE [ok |-> TRUE, stmt |-> IF st.tag = "some" THEN st.val ELSE ExprS(VoidE),
              interner |-> st.p.interner])

\* Tokens::whitespace as a function: the lexer state it returns with, or
\* hang when a comment is not closed by a newline (bump_while(c != b'\n')
\* never stops past the end of the source).
RECURSIVE whitespace(_, _)
whitespace(src, st) ==
    Then(bump_while(src, st, AsciiWhitespace), LAMBDA st1 :
        IF first(src, st1) # "#" THEN [hang |-> FALSE, st |-> st1]
        ELSE IF \A i \in (st1.end + 2)..Len(src) : src[i] # "\n"
        THEN [hang |-> TRUE, st |-> st1]
        ELSE whitespace(src, bump_while(src, bump(src, st1),
                                        {src[i] : i \in 1..Len(src)} \ {"\n"})))

\* tokenize: Ok(tokens), Err(kind), or no return at all
RECURSIVE tokenize_loop(_, _, _)
tokenize_loop(src, st, toks) ==
    Then(whitespace(src, st), LAMBDA w :
        IF w.hang THEN [tag |-> "hang"]
        ELSE Then(scan(src, w.st), LAMBDA r :
                 IF r.out.tag = "ok"
                 THEN tokenize_loop(src, r.st,
                                    Append(toks, [kind |-> r.out.kind, start |-> r.out.start,
                                                  end |-> r.out.end]))
                 ELSE IF r.out.tag = "err" THEN [tag |-> "err", err |-> r.out.kind]
                 ELSE [tag |-> "ok", tokens |-> toks]))
tokenize(src) == tokenize_loop(src, TokensNew, <<>>)

\* while self.accept(Period).is_some() { if let Some(s) = accept_sym(Ident) { push } else { break } }
RECURSIVE segments_loop(_, _, _, _)
segments_loop(src, toks, p, segments) ==
    Then(accept(toks, p, "Period"), LAMBDA dot :
        IF dot.tag = "some"
        THEN Then(accept_sym(src, toks, dot.p, "Ident"), LAMBDA seg :
                 IF seg.tag = "some"
                 THEN segments_loop(src, toks, seg.p, Append(segments, seg.val))
                 ELSE PSome(segments, seg.p))
        ELSE PSome(segments, dot.p))

module_path(src, toks, p) ==
    Then(accept(toks, p, "Period"), LAMBDA dot :
        Then(accept_sym(src, toks, dot.p, "Ident"), LAMBDA seg :
            IF seg.tag = "some"
            THEN Then(segments_loop(src, toks, seg.p, <<seg.val>>), LAMBDA segs :
                     PSome([local |-> dot.tag = "some", segments |-> segs.val], segs.p))
            ELSE PNone([seg.p EXCEPT !.index = p.index])))

\* while self.accept(Comma).is_some() { if let Some(b) = accept_sym(Ident) { push } }
RECURSIVE bindings_loop(_, _, _, _)
bindings_loop(src, toks, p, bound) ==
    Then(accept(toks, p, "Comma"), LAMBDA c :
        IF c.tag = "some"
        THEN Then(accept_sym(src, toks, c.p, "Ident"), LAMBDA b :
                 bindings_loop(src, toks, b.p,
                               IF b.tag = "some" THEN Append(bound, <<b.val, b.val>>)
                               ELSE bound))
        ELSE PSome(bound, c.p))

bindings(src, toks, p) ==
    Then(accept(toks, p, "LParen"), LAMBDA l :
        IF l.tag = "some"
        THEN Then(accept_sym(src, toks, l.p, "Ident"), LAMBDA b :
                 Then(IF b.tag = "some"
                      THEN bindings_loop(src, toks, b.p, <<<<b.val, b.val>>>>)
                      ELSE PSome(<<>>, b.p), LAMBDA bs :
                     Then(accept(toks, bs.p, "RParen"), LAMBDA r :
                         IF r.tag = "some" THEN PSome(bs.val, r.p)
                         ELSE invalid_token(r.p))))
        ELSE PNone(l.p))

dep(src, toks, p) ==
    Then(module_path(src, toks, p), LAMBDA path :
        IF path.tag = "some"
        THEN Try(bindings(src, toks, path.p), LAMBDA b :
                 IF b.tag = "some"
                 THEN PSome([path |-> path.val, bindings |-> b.val], b.p)
                 ELSE invalid_token(b.p))
        ELSE PNone(path.p))

\* while self.accept(Comma).is_some() { if let Some(dep) = self.dep()? { push } }
RECURSIVE deps_loop(_, _, _, _)
deps_loop(src, toks, p, ds) ==
    Then(accept(toks, p, "Comma"), LAMBDA c :
        IF c.tag = "some"
        THEN Try(dep(src, toks, c.p), LAMBDA d :
                 deps_loop(src, toks, d.p,
                           IF d.tag = "some" THEN Append(ds, d.val) ELSE ds))
        ELSE PSome(ds, c.p))

deps(src, toks, p) ==
    Then(accept(toks, p, "Use"), LAMBDA u :
        IF u.tag # "some" THEN PSome(<<>>, u.p)
        ELSE Then(accept(toks, u.p, "LBrace"), LAMBDA l :
            IF l.tag # "some" THEN invalid_token(l.p)
            ELSE Try(dep(src, toks, l.p), LAMBDA d :
                Try(IF d.tag = "some" THEN deps_loop(src, toks, d.p, <<d.val>>)
                    ELSE PSome(<<>>, d.p), LAMBDA ds :
                    Then(accept(toks, ds.p, "RBrace"), LAMBDA r :
                        IF r.tag = "some" THEN PSome(ds.val, r.p)
                        ELSE invalid_token(r.p))))))

defs(src, toks, p) ==
    Try(stmts(src, toks, p), LAMBDA def :
        IF \E i \in 1..Len(def.val) : def.val[i].stmt = "Expr"
        THEN invalid_token(def.p)
        ELSE PSome(def.val, def.p))

module(src, toks, p) ==
    Try(deps(src, toks, p), LAMBDA ds :
        Then(accept(toks, ds.p, "Comma"), LAMBDA c :
            Try(defs(src, toks, c.p), LAMBDA dfs :
                PSome([deps |-> ds.val, defs |-> dfs.val], dfs.p))))

parse_module(src, toks, i) ==
    Then(module(src, toks, ParserNew(i)), LAMBDA md :
        IF md.tag = "panic" THEN [ok |-> FALSE, err |-> "panic", interner |-> md.p.interner]
        ELSE IF md.tag = "err" THEN [ok |-> FALSE, err |-> md.err, interner |-> md.p.interner]
        ELSE [ok |-> TRUE, module |-> md.val, interner |-> md.p.interner])

(***************************************************************************)
(* parse_expr, parse_stmt and parse_module as calls on a source            *)
(***************************************************************************)
\* Int literals: a radix prefix and digits.  The short digit strings are
\* read under every radix; the long ones lie on both sides of i64::MAX.
Radix(radix_prefix) ==
    CASE radix_prefix = <<"0", "b">> -> 2
      [] radix_prefix = <<"0", "o">> -> 8
      [] radix_prefix = <<"0", "x">> -> 16
      [] OTHER -> 10
ShortDigits == UNION {[1..n -> {"0", "1"}] : n \in 0..2}
BinDigitStrings ==
    {<<"1", "0", "1">>,
     <<"1", "1", "1", "1", "1", "1", "1", "1", "1", "1", "1", "1", "1", "1", "1">>,
     <<"1", "0", "0", "0", "0", "0", "0", "0", "0", "0", "0", "0", "0", "0", "0", "0">>,
     <<"1", "0", "0", "0", "0", "0", "0", "0", "0", "0", "0", "0", "0", "0", "0", "1">>,
     <<"0", "0", "1", "1", "1", "1", "1", "1", "1", "1", "1", "1", "1", "1", "1", "1", "1">>}
OctDigitStrings ==
    {<<"7", "4", "7">>, <<"7", "7", "7", "7", "7">>, <<"1", "0", "0", "0", "0", "0">>,
     <<"1", "0", "0", "0", "0", "1">>, <<"7", "7", "7", "7", "7", "7">>}
DecDigitStrings ==
    {<<"7">>, <<"1", "2", "3">>, <<"0", "0", "7">>, <<"3", "2", "7", "6", "7">>,
     <<"3", "2", "7", "6", "8">>, <<"3", "2", "7", "6", "9">>, <<"6", "5", "5", "3", "6">>,
     <<"9", "9", "9", "9", "9">>, <<"0", "3", "2", "7", "6", "7">>}
HexDigitStrings ==
    {<<"a", "B">>, <<"7", "f", "f", "f">>, <<"7", "F", "F", "F">>, <<"8", "0", "0", "0">>,
     <<"8", "0", "0", "1">>, <<"f", "f", "f", "f">>, <<"1", "0", "0", "0", "0">>}
IntLiterals ==
    {[radix_prefix |-> <<"0", "b">>, digits |-> d] : d \in ShortDigits \cup BinDigitStrings}
        \cup {[radix_prefix |-> <<"0", "o">>, digits |-> d] :
                  d \in ShortDigits \cup OctDigitStrings}
        \cup {[radix_prefix |-> <<"0", "x">>, digits |-> d] :
                  d \in ShortDigits \cup HexDigitStrings}
        \cup {[radix_prefix |-> <<>>, digits |-> d] :
                  d \in (ShortDigits \ {<<>>}) \cup DecDigitStrings}
IntSource(literal) == literal.radix_prefix \o literal.digits
IntSources == {IntSource(literal) : literal \in IntLiterals}

\* Blocks: `{`, statements separated by `, `, `}`.  One statement may itself
\* be a block (`{{1}}`, `{{}}`); two statements are flat.
FlatStmtSources ==
    {
      <<"1">>,
      <<"x">>,
      <<"l", "e", "t", " ", "a", " ", "=", " ", "2">>
    }
BlockStmtSources ==
    FlatStmtSources
        \cup {
               <<"{", "}">>,
               <<"{", "1", "}">>,
               <<"{", "l", "e", "t", " ", "a", " ", "=", " ", "2", "}">>,
               <<"{", "1", ",", " ", "x", "}">>
             }
BlockCases ==
    {<<>>} \cup [1..1 -> BlockStmtSources] \cup [1..2 -> FlatStmtSources]
RECURSIVE JoinStmts(_)
JoinStmts(ss) ==
    IF ss = <<>> THEN <<>>
    ELSE IF Len(ss) = 1 THEN ss[1]
    ELSE ss[1] \o <<",", " ">> \o JoinStmts(Tail(ss))
BlockSource(ss) == <<"{">> \o JoinStmts(ss) \o <<"}">>
\* `{{1}}`
SrcNestedOne ==
    <<"{", "{", "1", "}", "}">>
\* `{{}}`
SrcNestedVoid ==
    <<"{", "{", "}", "}">>
BlockSources == {BlockSource(ss) : ss \in BlockCases}

\* Module sources with and without a bare expression among the definitions
\* `x`
SrcModExpr ==
    <<"x">>
\* `let a = 1, x`
SrcModLetExpr ==
    <<"l", "e", "t", " ", "a", " ", "=", " ", "1", ",", " ", "x">>
\* `1<newline>let a = 1`
SrcModExprLet ==
    <<"1", "\n", "l", "e", "t", " ", "a", " ", "=", " ", "1">>
\* `let a = 1<newline>let b = a`
SrcModLets ==
    <<"l", "e", "t", " ", "a", " ", "=", " ", "1", "\n", "l", "e", "t", " ",
      "b", " ", "=", " ", "a">>
\* `use { x.y (w) }<newline>let q = w`
SrcModUse ==
    <<"u", "s", "e", " ", "{", " ", "x", ".", "y", " ", "(", "w", ")", " ",
      "}", "\n", "l", "e", "t", " ", "q", " ", "=", " ", "w">>
BareExprSources == {SrcModExpr, SrcModLetExpr, SrcModExprLet}
ModuleSources == BareExprSources \cup {SrcModLets, SrcModUse}

\* Sources that open a delimiter and never close it, and their closed forms
UnclosedExprSources ==
    {
      <<"(", "1">>,
      <<"[", "1">>,
      <<"{", "1">>,
      <<"f", "(", "1">>,
      <<"(", "a", ":", " ", "(", "1", ")">>,
      <<"[", "[", "1", "]">>,
      <<"{", " ", "l", "e", "t", " ", "a", " ", "=", " ", "1">>,
      <<"(">>,
      <<"[">>,
      <<"{">>
    }
UnclosedLetSources ==
    {
      <<"l", "e", "t", " ", "(", "a", " ", "=", " ", "1">>,
      <<"l", "e", "t", " ", "f", "(", "a", " ", "=", " ", "1">>,
      <<"l", "e", "t", " ", "a", " ", "=", " ", "(", "1">>
    }
UnclosedSources == UnclosedExprSources \cup UnclosedLetSources
ClosedSources ==
    {
      <<"(", "1", ")">>,
      <<"[", "1", "]">>,
      <<"f", "(", "1", ")">>,
      <<"l", "e", "t", " ", "(", "a", ")", " ", "=", " ", "1">>,
      <<"l", "e", "t", " ", "f", "(", "a", ")", " ", "=", " ", "1">>
    }

\* Sources with tokens after the first expression or statement
LeftoverSources ==
    {
      <<"1", " ", "2">>,
      <<"x", " ", "y">>,
      <<"l", "e", "t", " ", "a", " ", "=", " ", "1", " ", "l", "e", "t", " ",
        "b", " ", "=", " ", "2">>,
      <<"1", " ", ")">>,
      <<"l", "e", "t", " ", "a", " ", "=", " ", "1", " ", "2">>,
      <<"1", " ", "l", "e", "t", " ", "a", " ", "=", " ", "1">>
    }
\* The sources each entry point is called on
ExprCallSources ==
    IntSources \cup BlockSources \cup UnclosedExprSources \cup ClosedSources
        \cup LeftoverSources
StmtCallSources ==
    UnclosedSources \cup ClosedSources \cup LeftoverSources \cup BareExprSources
ModuleCallSources == ModuleSources \cup UnclosedLetSources \cup LeftoverSources

\* What a call leaves in `parsed`: the function, its result, and (history)
\* the tokens and how many of them the production went past.
ParseReturn(fn, t, r, at) ==
    IF t.tag = "hang" THEN [fn |-> fn, ok |-> FALSE, err |-> "hang"]
    ELSE IF t.tag = "err" THEN [fn |-> fn, ok |-> FALSE, err |-> t.err]
    ELSE IF r.ok
    THEN [fn |-> fn, ok |-> TRUE, val |-> r.val, tokens |-> t.tokens, index |-> at]
    ELSE [fn |-> fn, ok |-> FALSE, err |-> r.err, tokens |-> t.tokens]

\* parse_expr(source, interner)
ParseExprCall ==
    /\ parsed = <<>>
    /\ \E s \in ExprCallSources :
           /\ source' = s
           /\ \E t \in {tokenize(s)} :
                  IF t.tag # "ok"
                  THEN /\ parsed' = <<ParseReturn("parse_expr", t, t, 0)>>
                       /\ interner' = interner
                  ELSE \E r \in {parse_expr(s, t.tokens, interner)} :
                           /\ parsed' = <<ParseReturn("parse_expr", t,
                                              IF r.ok THEN [ok |-> TRUE, val |-> r.expr]
                                              ELSE r,
                                              expr(s, t.tokens, ParserNew(interner)).p.index)>>
                           /\ interner' = r.interner
    /\ UNCHANGED <<internHist, lexer, tokens, lexPc, lexResult>>

\* parse_stmt(source, interner)
ParseStmtCall ==
    /\ parsed = <<>>
    /\ \E s \in StmtCallSources :
           /\ source' = s
           /\ \E t \in {tokenize(s)} :
                  IF t.tag # "ok"
                  THEN /\ parsed' = <<ParseReturn("parse_stmt", t, t, 0)>>
                       /\ interner' = interner
                  ELSE \E r \in {parse_stmt(s, t.tokens, interner)} :
                           /\ parsed' = <<ParseReturn("parse_stmt", t,
                                              IF r.ok THEN [ok |-> TRUE, val |-> r.stmt]
                                              ELSE r,
                                              stmt(s, t.tokens, ParserNew(interner)).p.index)>>
                           /\ interner' = r.interner
    /\ UNCHANGED <<internHist, lexer, tokens, lexPc, lexResult>>

\* parse_module(source, interner)
ParseModuleCall ==
    /\ parsed = <<>>
    /\ \E s \in ModuleCallSources :
           /\ source' = s
           /\ \E t \in {tokenize(s)} :
                  IF t.tag # "ok"
                  THEN /\ parsed' = <<ParseReturn("parse_module", t, t, 0)>>
                       /\ interner' = interner
                  ELSE \E r \in {parse_module(s, t.tokens, interner)} :
                           /\ parsed' = <<ParseReturn("parse_module", t,
                                              IF r.ok THEN [ok |-> TRUE, val |-> r.module]
                                              ELSE r,
                                              module(s, t.tokens, ParserNew(interner)).p.index)>>
                           /\ interner' = r.interner
    /\ UNCHANGED <<internHist, lexer, tokens, lexPc, lexResult>>

(***************************************************************************)
(* Claims about the parser's entry points                                  *)
(***************************************************************************)
\* The value of a digit string in a radix, by position.
RECURSIVE DigitsValue(_, _)
DigitsValue(digits, radix) ==
    IF digits = <<>> THEN 0
    ELSE DigitsValue(SubSeq(digits, 1, Len(digits) - 1), radix) * radix
             + HexVal(digits[Len(digits)])

\* parse_expr has returned for a source that is the one Int token of literal l
ParsedIntLiteral(l) ==
    /\ parsed # <<>>
    /\ parsed[1].fn = "parse_expr"
    /\ source = IntSource(l)
    /\ "tokens" \in DOMAIN parsed[1]
    /\ Len(parsed[1].tokens) = 1
    /\ parsed[1].tokens[1].kind = "Int"

\* C22: for every Int token, whatever its prefix, the parser returns Int(n)
\* with n the exact value of the digits when n is at most the largest Int and
\* Err(IntInvalid) otherwise; never a wrapped or truncated value.
C22_IntExactOrInvalid ==
    \A l \in IntLiterals :
        ParsedIntLiteral(l) =>
            IF DigitsValue(l.digits, Radix(l.radix_prefix)) <= IntMax
            THEN /\ parsed[1].ok
                 /\ parsed[1].val = IntE(DigitsValue(l.digits, Radix(l.radix_prefix)))
            ELSE /\ ~parsed[1].ok
                 /\ parsed[1].err = "IntInvalid"

\* The literal one above the largest Int has been refused.
C22_Witness ==
    \E l \in IntLiterals :
        /\ ParsedIntLiteral(l)
        /\ l.radix_prefix = <<"0", "x">>
        /\ DigitsValue(l.digits, 16) = IntMax + 1
        /\ ~parsed[1].ok
        /\ parsed[1].err = "IntInvalid"

\* The largest Int itself has been parsed.
C22_WitnessMax ==
    \E l \in IntLiterals :
        /\ ParsedIntLiteral(l)
        /\ DigitsValue(l.digits, Radix(l.radix_prefix)) = IntMax
        /\ parsed[1].ok

\* The statements of a block, each parsed on its own by parse_stmt, with the
\* interner handed from one to the next.
RECURSIVE StmtsOf(_, _)
StmtsOf(ss, i) ==
    IF ss = <<>> THEN <<>>
    ELSE Then(parse_stmt(ss[1], tokenize(ss[1]).tokens, i), LAMBDA r :
             <<r.stmt>> \o StmtsOf(Tail(ss), r.interner))

\* parse_expr has returned for the block of statement sources ss
ParsedBlock(ss) ==
    /\ parsed # <<>>
    /\ parsed[1].fn = "parse_expr"
    /\ source = BlockSource(ss)

\* C23: a block with no statements parses to Void, a block of exactly one
\* expression statement e parses to e itself (at any nesting depth), and
\* every other block parses to Block(statements), the statements in source
\* order.
C23_BlockShapes ==
    \A ss \in BlockCases :
        ParsedBlock(ss) =>
            /\ parsed[1].ok
            /\ parsed[1].val =
                   Then(StmtsOf(ss, InternerNew), LAMBDA statements :
                       IF Len(statements) = 0 THEN VoidE
                       ELSE IF Len(statements) = 1 /\ statements[1].stmt = "Expr"
                       THEN statements[1].expr
                       ELSE BlockE(statements))
            /\ source = SrcNestedOne => parsed[1].val = IntE(1)
            /\ source = SrcNestedVoid => parsed[1].val = VoidE
            /\ source = <<"{", "}">> => parsed[1].val = VoidE

\* `{{1}}` has been parsed to Int(1).
C23_Witness ==
    /\ ParsedBlock(<<<<"{", "1", "}">>>>)
    /\ source = SrcNestedOne
    /\ parsed[1].ok
    /\ parsed[1].val = IntE(1)

\* A block of a let and an expression has been parsed to a Block of both.
C23_WitnessBlock ==
    \E ss \in BlockCases :
        /\ ParsedBlock(ss)
        /\ Len(ss) = 2
        /\ parsed[1].ok
        /\ parsed[1].val.kind = "Block"
        /\ Len(parsed[1].val.stmts) = 2
        /\ parsed[1].val.stmts[1].stmt = "Let"
        /\ parsed[1].val.stmts[2].stmt = "Expr"

\* parse_module has returned for the current source
ParsedModule ==
    /\ parsed # <<>>
    /\ parsed[1].fn = "parse_module"

\* C24: parse_module on a source whose top-level statements contain a bare
\* expression statement fails with NoUnboundExprAtModuleLevel; a module whose
\* definitions are all let statements parses to Mod { deps, defs } with only
\* Let statements in defs.
C24_BareExprAtModuleLevel ==
    ParsedModule =>
        /\ source \in BareExprSources =>
               /\ ~parsed[1].ok
               /\ parsed[1].err = "NoUnboundExprAtModuleLevel"
        /\ source \in {SrcModLets, SrcModUse} =>
               /\ parsed[1].ok
               /\ DOMAIN parsed[1].val = {"deps", "defs"}
               /\ \A k \in 1..Len(parsed[1].val.defs) :
                      parsed[1].val.defs[k].stmt = "Let"

\* The part of C24 that the code keeps: a bare expression at module level is
\* refused and a module of lets is a Mod of Let statements.
C24_BareExprRefused ==
    ParsedModule =>
        /\ source \in BareExprSources => ~parsed[1].ok
        /\ source \in {SrcModLets, SrcModUse} =>
               /\ parsed[1].ok
               /\ \A k \in 1..Len(parsed[1].val.defs) :
                      parsed[1].val.defs[k].stmt = "Let"

\* C26: parsing a source in which a `(`, `[` or `{` is opened and never
\* closed (tuple, list, block, call arguments, tuple pattern, let-sugar
\* parameters) returns Err with kind Delimiters and never succeeds.
C26_UnclosedIsDelimiters ==
    (parsed # <<>> /\ source \in UnclosedSources) =>
        /\ ~parsed[1].ok
        /\ parsed[1].err = "Delimiters"

\* The part of C26 that the code keeps: an unclosed tuple, list, block or
\* call argument tuple in expression position is Err(Delimiters).
C26_UnclosedExprIsDelimiters ==
    (parsed # <<>> /\ parsed[1].fn = "parse_expr" /\ source \in UnclosedExprSources) =>
        /\ ~parsed[1].ok
        /\ parsed[1].err = "Delimiters"

\* C30: parse_expr, parse_stmt and parse_module return Ok only when the
\* production they parsed accounts for every token of the source; leftover
\* tokens produce an error.
C30_OkConsumesEveryToken ==
    (parsed # <<>> /\ parsed[1].ok) => parsed[1].index = Len(parsed[1].tokens)

\* The lexeme of each binary operator token (lexer::punctuation).
Lexeme ==
    [OrOr |-> <<"|", "|">>, AndAnd |-> <<"&", "&">>, EqEq |-> <<"=", "=">>,
     NotEq |-> <<"!", "=">>, Lt |-> <<"<">>, LtEq |-> <<"<", "=">>,
     Gt |-> <<">">>, GtEq |-> <<">", "=">>, Or |-> <<"|">>, Caret |-> <<"^">>,
     And |-> <<"&">>, LtLt |-> <<"<", "<">>, GtGt |-> <<">", ">">>,
     Plus |-> <<"+">>, Minus |-> <<"-">>, Star |-> <<"*">>, Slash |-> <<"/">>,
     Percent |-> <<"%">>, StarStar |-> <<"*", "*">>, Period |-> <<".">>]
BinOpKinds == DOMAIN BinOpTable

\* `a o1 b o2 c`
Infix3(o1, o2) ==
    <<"a", " ">> \o Lexeme[o1] \o <<" ", "b", " ">> \o Lexeme[o2] \o <<" ", "c">>
\* `f(x) o1 g(y) o2 h(z)`
CallInfix3(o1, o2) ==
    <<"f", "(", "x", ")", " ">> \o Lexeme[o1] \o <<" ", "g", "(", "y", ")", " ">>
        \o Lexeme[o2] \o <<" ", "h", "(", "z", ")">>
\* `a.b.c`, and an expression continued after a comment line
DotChain == <<"a", ".", "b", ".", "c">>
Commented == <<"a", " ", "+", " ", "#", "x", "\n", "b">>

ParseSources ==
    {Infix3(o1, o2) : o1 \in BinOpKinds, o2 \in BinOpKinds}
        \cup {CallInfix3(o1, o2) : o1 \in BinOpKinds, o2 \in BinOpKinds}
        \cup {DotChain, Commented}

\* parse_expr(source, interner): tokenize(source)? has run; the parser runs
\* over the token vector, or the lexer's error is returned.
ParseExpr ==
    /\ lexPc = "done"
    /\ parsed = <<>>
    /\ IF lexResult = "Ok"
       THEN \E r \in {parse_expr(source, tokens, interner)} :
                /\ parsed' = <<IF r.ok THEN [ok |-> TRUE, expr |-> r.expr]
                               ELSE [ok |-> FALSE, err |-> r.err]>>
                /\ interner' = r.interner
       ELSE /\ parsed' = <<[ok |-> FALSE, err |-> lexResult]>>
            /\ interner' = interner
    /\ UNCHANGED <<internHist, lexVars>>

(***************************************************************************)
(* vamp_eval                                                               *)
(* Scopes live behind Rc<RefCell<..>>: the model keeps them in a heap, a   *)
(* sequence of [parent, bindings], and a handle is an index into it.  The  *)
(* evaluator threads the machine m = [heap, build, calls, evals] through   *)
(* every call; calls and evals are histories, not program state.           *)
(***************************************************************************)
\* Value
BoolV(b) == [v |-> "Bool", bool |-> b]
SymV(sym) == [v |-> "Sym", sym |-> sym]
StrV(str) == [v |-> "Str", str |-> str]
IntV(i) == [v |-> "Int", int |-> i]
FloatV(f) == [v |-> "Float", float |-> f]
TupleV(t) == [v |-> "Tuple", tuple |-> t]
ListV(items) == [v |-> "List", items |-> items]
FnV(params, body, scope) ==
    [v |-> "Fn", params |-> params, body |-> body, scope |-> scope]

\* Result<T> together with the machine left behind; a panic unwinds like an
\* error, and "unmodelled" marks a value the model does not compute.
VOk(val, m) == [tag |-> "ok", val |-> val, m |-> m]
VErr(e, m) == [tag |-> "err", err |-> e, m |-> m]
VPanic(m) == [tag |-> "panic", m |-> m]
VUnmodelled(m) == [tag |-> "unmodelled", m |-> m]
\* `let v = x?; F(v)` on the evaluator's results
TryV(x, F(_)) ==
    CHOOSE y \in {IF v.tag # "ok" THEN v ELSE F(v) : v \in {x}} : TRUE

\* Scope::new
ScopeNew(parent) == [parent |-> parent, bindings |-> TupleNew]

\* Rc::new(RefCell::new(scope)): the handle is m.heap's new length.
Alloc(m, scope) == [m EXCEPT !.heap = Append(@, scope)]

\* Scope::bind on the scope behind handle h
scope_bind(m, h, name, value) ==
    [m EXCEPT !.heap[h].bindings = insert(@, name, value).tuple]

\* Scope::lookup on the scope behind handle h
RECURSIVE scope_lookup(_, _, _)
scope_lookup(m, h, name) ==
    LET found == get_sym(m.heap[h].bindings, name) IN
    IF found.some THEN VOk(found.val, m)
    ELSE IF m.heap[h].parent.some THEN scope_lookup(m, m.heap[h].parent.val, name)
    ELSE VErr("Unbound", m)

\* i64 arithmetic at the model's width.  An overflow panics in a build with
\* overflow checks and wraps in one without.
IntMin == -IntMax - 1
Wrap(n) == ((n - IntMin) % (2 * (IntMax + 1))) + IntMin
Overflowing(n, m) ==
    IF IntMin <= n /\ n <= IntMax THEN VOk(IntV(n), m)
    ELSE IF m.build = "debug" THEN VPanic(m)
    ELSE VOk(IntV(Wrap(n)), m)

\* i64::wrapping_pow, by squaring
RECURSIVE wrapping_pow(_, _)
wrapping_pow(a, b) ==
    IF b = 0 THEN 1
    ELSE Then(wrapping_pow(a, b \div 2), LAMBDA h :
             IF b % 2 = 0 THEN Wrap(h * h) ELSE Wrap(Wrap(h * h) * a))
\* whether a^b leaves the i64 range, acc being a power of a within it
RECURSIVE pow_overflows(_, _, _)
pow_overflows(a, b, acc) ==
    IF b = 0 \/ a \in {0, 1, -1} THEN FALSE
    ELSE IF acc * a < IntMin \/ acc * a > IntMax THEN TRUE
    ELSE pow_overflows(a, b - 1, acc * a)
\* a.pow(b.try_into().unwrap()): the exponent must fit u32
int_pow(a, b, m) ==
    IF b < 0 THEN VPanic(m)
    ELSE IF pow_overflows(a, b, 1) /\ m.build = "debug" THEN VPanic(m)
    ELSE VOk(IntV(wrapping_pow(a, b)), m)

\* Rust's `/` and `%` truncate toward zero; TLA+'s \div and % floor.
TruncDiv(a, b) ==
    LET q == (IF a < 0 THEN -a ELSE a) \div (IF b < 0 THEN -b ELSE b) IN
    IF (a < 0) = (b < 0) THEN q ELSE -q
TruncRem(a, b) == a - b * TruncDiv(a, b)

\* the byte order of str comparison
Code(c) == CHOOSE i \in 1..128 : Ascii[i] = c
RECURSIVE StrLt(_, _)
StrLt(a, b) ==
    IF b = <<>> THEN FALSE
    ELSE IF a = <<>> THEN TRUE
    ELSE IF Head(a) = Head(b) THEN StrLt(Tail(a), Tail(b))
    ELSE Code(Head(a)) < Code(Head(b))

\* Whether derived PartialEq on a value would compare a Float or a Fn (a
\* closure's scope is compared by content); the model leaves those out.
RECURSIVE Opaque(_)
Opaque(val) ==
    CASE val.v \in {"Float", "Fn"} -> TRUE
      [] val.v = "Tuple" -> \E i \in 1..Len(val.tuple.data) : Opaque(val.tuple.data[i])
      [] val.v = "List" -> \E i \in 1..Len(val.items) : Opaque(val.items[i])
      [] OTHER -> FALSE

\* The value of a variant that holds one (the payload compared by ==, <, ...)
Payload(val) ==
    CASE val.v = "Bool" -> val.bool [] val.v = "Sym" -> val.sym
      [] val.v = "Str" -> val.str [] val.v = "Int" -> val.int
      [] val.v = "Tuple" -> val.tuple [] val.v = "List" -> val.items

FloatOp(a, op, b) == FloatV("(" \o a.float \o op \o b.float \o ")")

\* The match on the two evaluated operands of an arithmetic or comparison
\* operator.
bin_values(op, a, b, m) ==
    LET ints == a.v = "Int" /\ b.v = "Int"
        floats == a.v = "Float" /\ b.v = "Float"
        strs == a.v = "Str" /\ b.v = "Str"
        lt == IF ints THEN a.int < b.int ELSE StrLt(a.str, b.str)
        eq == Payload(a) = Payload(b) IN
    CASE op = "Add" -> IF ints THEN Overflowing(a.int + b.int, m)
                       ELSE IF floats THEN VOk(FloatOp(a, "+", b), m) ELSE VErr("Types", m)
      [] op = "Sub" -> IF ints THEN Overflowing(a.int - b.int, m)
                       ELSE IF floats THEN VOk(FloatOp(a, "-", b), m) ELSE VErr("Types", m)
      [] op = "Mul" -> IF ints THEN Overflowing(a.int * b.int, m)
                       ELSE IF floats THEN VOk(FloatOp(a, "*", b), m) ELSE VErr("Types", m)
      [] op = "Div" -> IF ints THEN (IF b.int = 0 \/ (a.int = IntMin /\ b.int = -1) THEN VPanic(m)
                                     ELSE VOk(IntV(TruncDiv(a.int, b.int)), m))
                       ELSE IF floats THEN VOk(FloatOp(a, "/", b), m) ELSE VErr("Types", m)
      [] op = "Mod" -> IF ints THEN (IF b.int = 0 \/ (a.int = IntMin /\ b.int = -1) THEN VPanic(m)
                                     ELSE VOk(IntV(TruncRem(a.int, b.int)), m))
                       ELSE VErr("Types", m)
      [] op = "Exp" -> IF ints THEN int_pow(a.int, b.int, m)
                       ELSE IF floats THEN VOk(FloatOp(a, "**", b), m) ELSE VErr("Types", m)
      [] op \in {"Eq", "NotEq"} ->
            IF a.v # b.v \/ a.v = "Fn" THEN VErr("Types", m)
            ELSE IF Opaque(a) \/ Opaque(b) THEN VUnmodelled(m)
            ELSE VOk(BoolV(IF op = "Eq" THEN eq ELSE ~eq), m)
      [] op \in {"Lt", "LtEq", "Gt", "GtEq"} ->
            IF floats THEN VUnmodelled(m)
            ELSE IF ~(ints \/ strs) THEN VErr("Types", m)
            ELSE VOk(BoolV(CASE op = "Lt" -> lt [] op = "LtEq" -> lt \/ eq
                             [] op = "Gt" -> ~lt /\ ~eq [] op = "GtEq" -> ~lt), m)

\* The operators whose two operands are both evaluated, left then right.
StrictOps ==
    {"Add", "Sub", "Mul", "Div", "Mod", "Exp", "Eq", "NotEq", "Lt", "LtEq", "Gt", "GtEq"}

RECURSIVE bind(_, _, _, _, _), bind_tuple(_, _, _, _, _, _)

\* bind_tuple: the loop over pat.iter(), i counting the positional patterns
bind_tuple(m, scope, ctx, entries, value, i) ==
    IF entries = <<>> THEN VOk("unit", m)
    ELSE LET entry == Head(entries)
             got == IF entry.entry = "Pos" THEN get_usize(value, i)
                    ELSE get_sym(value, entry.key) IN
         IF ~got.some THEN VErr("Mismatch", m)
         ELSE TryV(bind(m, scope, ctx, entry.value, got.val), LAMBDA b :
                  bind_tuple(b.m, scope, ctx, Tail(entries), value,
                             IF entry.entry = "Pos" THEN i + 1 ELSE i))

bind(m, scope, ctx, pattern, value) ==
    CASE pattern.pat = "Ident" -> VOk("unit", scope_bind(m, scope, pattern.sym, value))
      [] pattern.pat = "CtxIdent" -> VOk("unit", scope_bind(m, ctx, pattern.ctx_sym, value))
      [] pattern.pat = "Sym" -> IF value.v = "Sym" /\ value.sym = pattern.lit_sym
                            THEN VOk("unit", m) ELSE VErr("Mismatch", m)
      [] pattern.pat = "Str" -> IF value.v = "Str" /\ value.str = pattern.str
                            THEN VOk("unit", m) ELSE VErr("Mismatch", m)
      [] pattern.pat = "Int" -> IF value.v = "Int" /\ value.int = pattern.int
                            THEN VOk("unit", m) ELSE VErr("Mismatch", m)
      [] pattern.pat = "Float" -> IF value.v = "Float" /\ value.float = pattern.float
                              THEN VOk("unit", m) ELSE VErr("Mismatch", m)
      [] pattern.pat = "Bool" -> IF value.v = "Bool" /\ value.bool = pattern.bool
                             THEN VOk("unit", m) ELSE VErr("Mismatch", m)
      [] pattern.pat = "Tuple" -> IF value.v = "Tuple"
                              THEN bind_tuple(m, scope, ctx, iter(pattern.tuple), value.tuple, 0)
                              ELSE VErr("Mismatch", m)
      [] pattern.pat = "Wild" -> VOk("unit", m)
      [] OTHER -> VPanic(m)

\* let mut call_scope = Scope::new(Some(fn_scope)); the caller's scope plays
\* no part in it.
call_scope_dynamic(fn_scope, scope) == ScopeNew(Some(scope))
call_scope(fn_scope, scope) == ScopeNew(Some(fn_scope))

\* eval_expr(&body, Rc::new(RefCell::new(call_scope)), ctx): the body runs
\* under the context scope the call was evaluated under.
call_ctx_captured(fn_scope, ctx) == fn_scope
call_ctx(fn_scope, ctx) == ctx

RECURSIVE eval_expr(_, _, _, _), eval_entries(_, _, _, _, _), eval_items(_, _, _, _, _),
          eval_dot(_, _, _, _, _), eval_strict(_, _, _, _, _, _),
          eval_and(_, _, _, _, _), eval_or_eager(_, _, _, _, _), eval_or(_, _, _, _, _),
          eval_call(_, _, _, _, _), eval_stmts(_, _, _, _), eval_stmt(_, _, _, _)

\* `for entry in tuple.iter()` of ExprKind::Tuple and ExprKind::Call: the
\* entries are evaluated in iteration order into a new tuple.
eval_entries(entries, scope, ctx, m, result) ==
    IF entries = <<>> THEN VOk(TupleV(result), m)
    ELSE TryV(eval_expr(Head(entries).value, scope, ctx, m), LAMBDA r :
             eval_entries(Tail(entries), scope, ctx, r.m,
                          IF Head(entries).entry = "Pos" THEN push(result, r.val)
                          ELSE insert(result, Head(entries).key, r.val).tuple))

\* `for item in items` of ExprKind::List
eval_items(items, scope, ctx, m, result) ==
    IF items = <<>> THEN VOk(ListV(result), m)
    ELSE TryV(eval_expr(Head(items), scope, ctx, m), LAMBDA r :
             eval_items(Tail(items), scope, ctx, r.m, Append(result, r.val)))

\* BinOp::Dot: the right operand is not evaluated, it names the entry.
eval_dot(l, r, scope, ctx, m) ==
    TryV(eval_expr(l, scope, ctx, m), LAMBDA lv :
        IF lv.val.v = "Tuple" /\ r.kind = "Ident"
        THEN LET got == get_sym(lv.val.tuple, r.sym) IN
             IF got.some THEN VOk(got.val, lv.m) ELSE VErr("KeyNotFound", lv.m)
        ELSE IF lv.val.v = "Tuple" /\ r.kind = "Int"
        THEN LET got == IF r.int < 0 THEN None ELSE get_usize(lv.val.tuple, r.int) IN
             IF got.some THEN VOk(got.val, lv.m) ELSE VErr("KeyNotFound", lv.m)
        ELSE VErr("Types", lv.m))

\* match (eval_expr(l)?, eval_expr(r)?) { ... }
eval_strict(op, l, r, scope, ctx, m) ==
    TryV(eval_expr(l, scope, ctx, m), LAMBDA lv :
        TryV(eval_expr(r, scope, ctx, lv.m), LAMBDA rv :
            bin_values(op, lv.val, rv.val, rv.m)))

\* BinOp::And
eval_and(l, r, scope, ctx, m) ==
    TryV(eval_expr(l, scope, ctx, m), LAMBDA lv :
        IF lv.val.v # "Bool" THEN VErr("Types", lv.m)
        ELSE IF lv.val.bool
        THEN TryV(eval_expr(r, scope, ctx, lv.m), LAMBDA rv :
                 IF rv.val.v = "Bool" THEN VOk(BoolV(rv.val.bool), rv.m)
                 ELSE VErr("Types", rv.m))
        ELSE VOk(BoolV(FALSE), lv.m))

\* An `||` that evaluates both operands before it looks at the left one.
eval_or_eager(l, r, scope, ctx, m) ==
    TryV(eval_expr(l, scope, ctx, m), LAMBDA lv :
        TryV(eval_expr(r, scope, ctx, lv.m), LAMBDA rv :
            IF lv.val.v # "Bool" THEN VErr("Types", rv.m)
            ELSE IF lv.val.bool THEN VOk(BoolV(TRUE), rv.m)
            ELSE IF rv.val.v = "Bool" THEN VOk(BoolV(rv.val.bool), rv.m)
            ELSE VErr("Types", rv.m)))

\* BinOp::Or
eval_or(l, r, scope, ctx, m) ==
    TryV(eval_expr(l, scope, ctx, m), LAMBDA lv :
        IF lv.val.v # "Bool" THEN VErr("Types", lv.m)
        ELSE IF lv.val.bool THEN VOk(BoolV(TRUE), lv.m)
        ELSE TryV(eval_expr(r, scope, ctx, lv.m), LAMBDA rv :
                 IF rv.val.v = "Bool" THEN VOk(BoolV(rv.val.bool), rv.m)
                 ELSE VErr("Types", rv.m)))

\* ExprKind::Call: the callee, then the arguments in the caller's scope,
\* then the body in the call scope under the caller's context scope.  The
\* call is noted in m.calls when the body is entered.
eval_call(f, args, scope, ctx, m) ==
    TryV(eval_expr(f, scope, ctx, m), LAMBDA fv :
        IF fv.val.v # "Fn" THEN VErr("Types", fv.m)
        ELSE TryV(eval_entries(iter(args), scope, ctx, fv.m, TupleNew), LAMBDA av :
            Then(Alloc(av.m, call_scope(fv.val.scope, scope)), LAMBDA m1 :
                TryV(bind_tuple(m1, Len(m1.heap), ctx, iter(fv.val.params),
                                av.val.tuple, 0), LAMBDA b :
                    eval_expr(fv.val.body, Len(m1.heap), call_ctx(fv.val.scope, ctx),
                              [b.m EXCEPT !.calls =
                                  Append(@, [captured |-> fv.val.scope, caller |-> scope,
                                             call_scope |-> Len(m1.heap),
                                             caller_ctx |-> ctx,
                                             body_ctx |-> call_ctx(fv.val.scope, ctx)])])))))

\* ExprKind::Block: the loop over the statements in the block scope
\* A block that runs every statement and returns the last expression's value.
RECURSIVE eval_stmts_to_end(_, _, _, _, _)
eval_stmts_to_end(statements, scope, ctx, m, last) ==
    IF statements = <<>> THEN IF last.some THEN VOk(last.val, m) ELSE VErr("Void", m)
    ELSE TryV(eval_stmt(Head(statements), scope, ctx, m), LAMBDA r :
             eval_stmts_to_end(Tail(statements), scope, ctx, r.m,
                               IF r.val.some THEN r.val ELSE last))
eval_stmts_all(statements, scope, ctx, m) ==
    eval_stmts_to_end(statements, scope, ctx, m, None)

eval_stmts(statements, scope, ctx, m) ==
    IF statements = <<>> THEN VErr("Void", m)
    ELSE TryV(eval_stmt(Head(statements), scope, ctx, m), LAMBDA r :
             IF r.val.some THEN VOk(r.val.val, r.m)
             ELSE eval_stmts(Tail(statements), scope, ctx, r.m))

\* Every entry into eval_expr is noted in m.evals.
eval_expr(e, scope, ctx, m0) ==
    Then([m0 EXCEPT !.evals = Append(@, e)], LAMBDA m :
    CASE e.kind = "Void" -> VErr("Void", m)
      [] e.kind = "Ident" -> scope_lookup(m, scope, e.sym)
      [] e.kind = "CtxIdent" -> scope_lookup(m, ctx, e.ctx_sym)
      [] e.kind = "Sym" -> VOk(SymV(e.lit_sym), m)
      [] e.kind = "Str" -> VOk(StrV(e.str), m)
      [] e.kind = "Int" -> VOk(IntV(e.int), m)
      [] e.kind = "Float" -> VOk(FloatV(e.float), m)
      [] e.kind = "Bool" -> VOk(BoolV(e.bool), m)
      [] e.kind = "Tuple" -> eval_entries(iter(e.tuple), scope, ctx, m, TupleNew)
      [] e.kind = "List" -> eval_items(e.items, scope, ctx, m, <<>>)
      [] e.kind = "UnOp" ->
            IF e.un_op = "Neg"
            THEN TryV(eval_expr(e.operand, scope, ctx, m), LAMBDA r :
                     IF r.val.v = "Int" THEN Overflowing(-r.val.int, r.m)
                     ELSE IF r.val.v = "Float" THEN VOk(FloatV("-" \o r.val.float), r.m)
                     ELSE VErr("Types", r.m))
            ELSE IF e.un_op = "BitNot"
            THEN TryV(eval_expr(e.operand, scope, ctx, m), LAMBDA r :
                     IF r.val.v = "Int" THEN VOk(IntV(-r.val.int - 1), r.m)
                     ELSE VErr("Types", r.m))
            ELSE VPanic(m)
      [] e.kind = "BinOp" ->
            IF e.bin_op = "Dot" THEN eval_dot(e.l, e.r, scope, ctx, m)
            ELSE IF e.bin_op \in StrictOps THEN eval_strict(e.bin_op, e.l, e.r, scope, ctx, m)
            ELSE IF e.bin_op = "And" THEN eval_and(e.l, e.r, scope, ctx, m)
            ELSE IF e.bin_op = "Or" THEN eval_or(e.l, e.r, scope, ctx, m)
            ELSE VErr("Types", m)
      [] e.kind = "Block" ->
            Then(Alloc(m, ScopeNew(Some(scope))), LAMBDA m1 :
                eval_stmts(e.stmts, Len(m1.heap), ctx, m1))
      [] e.kind = "IfElse" ->
            TryV(eval_expr(e.cond, scope, ctx, m), LAMBDA c :
                IF c.val.v # "Bool" THEN VErr("Types", c.m)
                ELSE IF c.val.bool THEN eval_expr(e.if_expr, scope, ctx, c.m)
                ELSE eval_expr(e.else_expr, scope, ctx, c.m))
      [] e.kind = "Fn" -> VOk(FnV(e.params, e.body, scope), m)
      [] e.kind = "Call" -> eval_call(e.f, e.args, scope, ctx, m))

\* eval_stmt.  A Let borrows the scope and the context scope mutably at the
\* same time, which panics when both are one RefCell.
eval_stmt(st, scope, ctx, m) ==
    IF st.stmt = "Let"
    THEN TryV(eval_expr(st.expr, scope, ctx, m), LAMBDA r :
             IF scope = ctx THEN VPanic(r.m)
             ELSE TryV(bind(r.m, scope, ctx, st.pat, r.val), LAMBDA b : VOk(None, b.m)))
    ELSE TryV(eval_expr(st.expr, scope, ctx, m), LAMBDA r : VOk(Some(r.val), r.m))

(***************************************************************************)
(* vamp::Session                                                           *)
(***************************************************************************)
\* Session::new: scope and ctx are two root scopes.
SessionScope == 1
SessionCtx == 2
SessionHeap == <<ScopeNew(None), ScopeNew(None)>>
TraceNew == [calls |-> <<>>, evals |-> <<>>]

\* `{ let add = |x| |y| x + y, add(2)(3) }`
SrcCurry ==
    <<"{", " ", "l", "e", "t", " ", "a", "d", "d", " ", "=", " ", "|", "x", "|",
      " ", "|", "y", "|", " ", "x", " ", "+", " ", "y", ",", " ", "a", "d", "d",
      "(", "2", ")", "(", "3", ")", " ", "}">>
\* `{ let f = |y| q, let q = 7, f(0) }`
SrcLaterLet ==
    <<"{", " ", "l", "e", "t", " ", "f", " ", "=", " ", "|", "y", "|", " ", "q",
      ",", " ", "l", "e", "t", " ", "q", " ", "=", " ", "7", ",", " ", "f", "(",
      "0", ")", " ", "}">>
\* `{ let f = |y| q, let g = |q| f(0), g(7) }`
SrcCallerOnly ==
    <<"{", " ", "l", "e", "t", " ", "f", " ", "=", " ", "|", "y", "|", " ", "q",
      ",", " ", "l", "e", "t", " ", "g", " ", "=", " ", "|", "q", "|", " ", "f",
      "(", "0", ")", ",", " ", "g", "(", "7", ")", " ", "}">>
\* `{ let q = 1, let f = |y| q, let g = |q| f(0), g(7) }`
SrcShadow ==
    <<"{", " ", "l", "e", "t", " ", "q", " ", "=", " ", "1", ",", " ", "l", "e",
      "t", " ", "f", " ", "=", " ", "|", "y", "|", " ", "q", ",", " ", "l", "e",
      "t", " ", "g", " ", "=", " ", "|", "q", "|", " ", "f", "(", "0", ")", ",",
      " ", "g", "(", "7", ")", " ", "}">>
\* `true # x<newline>`
SrcCommented ==
    <<"t", "r", "u", "e", " ", "#", " ", "x", "\n">>
\* `true || `
LeftTrueOr ==
    <<"t", "r", "u", "e", " ", "|", "|", " ">>
\* `false && `
LeftFalseAnd ==
    <<"f", "a", "l", "s", "e", " ", "&", "&", " ">>
\* `false || `
LeftFalseOr ==
    <<"f", "a", "l", "s", "e", " ", "|", "|", " ">>
\* `true && `
LeftTrueAnd ==
    <<"t", "r", "u", "e", " ", "&", "&", " ">>
\* `1 || `
LeftIntOr ==
    <<"1", " ", "|", "|", " ">>
\* `'a' && `
LeftSymAnd ==
    <<"'", "a", "'", " ", "&", "&", " ">>
\* `() || `
LeftTupleOr ==
    <<"(", ")", " ", "|", "|", " ">>
\* `q`
RightUnbound ==
    <<"q">>
\* `{}`
RightVoid ==
    <<"{", "}">>
\* `0 * 'a'`
RightTypes ==
    <<"0", " ", "*", " ", "'", "a", "'">>
\* `{ let @c = 1, true }`
RightBinds ==
    <<"{", " ", "l", "e", "t", " ", "@", "c", " ", "=", " ", "1", ",", " ", "t",
      "r", "u", "e", " ", "}">>
\* `!true`
RightTodo ==
    <<"!", "t", "r", "u", "e">>
\* `1 / 0`
RightDivZero ==
    <<"1", " ", "/", " ", "0">>
\* `false`
RightBool ==
    <<"f", "a", "l", "s", "e">>
\* `7`
RightInt ==
    <<"7">>

\* The arithmetic operators and operand lexemes of the REPL lines
\* `l op r`: two Int, two Float and two other literals.
ArithOps == {<<"+">>, <<"-">>, <<"*">>, <<"/">>, <<"%">>, <<"*", "*">>}
IntTexts == {<<"2">>, <<"3">>}
FloatTexts == {<<"1", ".", "5">>, <<"2", ".", "5">>}
OtherTexts == {<<"'", "a", "'">>, <<"t", "r", "u", "e">>}
ArithTexts == IntTexts \cup FloatTexts \cup OtherTexts
ArithSource(l, op, r) == l \o <<" ">> \o op \o <<" ">> \o r
ArithSources == {ArithSource(l, op, r) : l \in ArithTexts, op \in ArithOps, r \in ArithTexts}
\* `2 * -1 + 10 / 2`
SrcArithTest ==
    <<"2", " ", "*", " ", "-", "1", " ", "+", " ", "1", "0", " ", "/", " ",
      "2">>
\* `0 * 'abc'`
SrcMulSym ==
    <<"0", " ", "*", " ", "'", "a", "b", "c", "'">>
\* `2 ** -1`
SrcNegExponent ==
    <<"2", " ", "*", "*", " ", "-", "1">>
\* `32767 + 1` (i64::MAX + 1 at the width of the model)`
SrcAddOverflow ==
    <<"3", "2", "7", "6", "7", " ", "+", " ", "1">>
\* `32767 * 2`
SrcMulOverflow ==
    <<"3", "2", "7", "6", "7", " ", "*", " ", "2">>
\* `2 ** 15` (2 ** 63 at the width of the model)`
SrcPowOverflow ==
    <<"2", " ", "*", "*", " ", "1", "5">>
\* `-32767 - 2`
SrcNegMin ==
    <<"-", "3", "2", "7", "6", "7", " ", "-", " ", "2">>
\* `-7 / 2`
SrcDivNeg ==
    <<"-", "7", " ", "/", " ", "2">>
\* `-7 % 2`
SrcRemNeg ==
    <<"-", "7", " ", "%", " ", "2">>
\* `1.5 ** 2.5`
SrcFloatPow ==
    <<"1", ".", "5", " ", "*", "*", " ", "2", ".", "5">>
\* `-1.5`
SrcFloatNeg ==
    <<"-", "1", ".", "5">>
\* Int and Float operations with a non-zero divisor
TotalSources ==
    {SrcArithTest, SrcNegExponent, SrcAddOverflow, SrcMulOverflow, SrcPowOverflow,
     SrcNegMin, SrcDivNeg, SrcRemNeg, SrcFloatPow, SrcFloatNeg}
        \cup {ArithSource(l, op, r) : l \in IntTexts, op \in ArithOps, r \in IntTexts}
        \cup {ArithSource(l, op, r) : l \in FloatTexts, op \in ArithOps \ {<<"%">>},
                                      r \in FloatTexts}

\* `{ let @c = 1, let f = |y| @c, let @c = 2, f(0) }`
SrcCtxAtCall ==
    <<"{", " ", "l", "e", "t", " ", "@", "c", " ", "=", " ", "1", ",", " ",
      "l", "e", "t", " ", "f", " ", "=", " ", "|", "y", "|", " ", "@", "c",
      ",", " ", "l", "e", "t", " ", "@", "c", " ", "=", " ", "2", ",", " ",
      "f", "(", "0", ")", " ", "}">>
\* `{ let f = |y| @c, f(0) }`
SrcCtxUnbound ==
    <<"{", " ", "l", "e", "t", " ", "f", " ", "=", " ", "|", "y", "|", " ",
      "@", "c", ",", " ", "f", "(", "0", ")", " ", "}">>
\* `{ let f = |@c| @c, f(5) }`
SrcCtxParam ==
    <<"{", " ", "l", "e", "t", " ", "f", " ", "=", " ", "|", "@", "c", "|",
      " ", "@", "c", ",", " ", "f", "(", "5", ")", " ", "}">>
\* `{ let f = |y| @c, let g = |@c| f(0), g(3) }`
SrcCtxCaller ==
    <<"{", " ", "l", "e", "t", " ", "f", " ", "=", " ", "|", "y", "|", " ",
      "@", "c", ",", " ", "l", "e", "t", " ", "g", " ", "=", " ", "|", "@",
      "c", "|", " ", "f", "(", "0", ")", ",", " ", "g", "(", "3", ")", " ",
      "}">>
\* `let (a, b) = (1, x: 2)`
SrcLetOverRead ==
    <<"l", "e", "t", " ", "(", "a", ",", " ", "b", ")", " ", "=", " ", "(",
      "1", ",", " ", "x", ":", " ", "2", ")">>
CtxSources == {SrcCtxAtCall, SrcCtxUnbound, SrcCtxParam, SrcCtxCaller}

\* Blocks whose statements after the first expression would fail or bind
\* `{ let a = 1, let b = a, b }`
SrcBlockLetRead ==
    <<"{", " ", "l", "e", "t", " ", "a", " ", "=", " ", "1", ",", " ", "l",
      "e", "t", " ", "b", " ", "=", " ", "a", ",", " ", "b", " ", "}">>
\* `{ 1, q }`
SrcBlockFirstExpr ==
    <<"{", " ", "1", ",", " ", "q", " ", "}">>
\* `{ a, let a = 2 }`
SrcBlockExprLet ==
    <<"{", " ", "a", ",", " ", "l", "e", "t", " ", "a", " ", "=", " ", "2",
      " ", "}">>
\* `{ let a = 1, a, let c = 2 }`
SrcBlockLetExprLet ==
    <<"{", " ", "l", "e", "t", " ", "a", " ", "=", " ", "1", ",", " ", "a",
      ",", " ", "l", "e", "t", " ", "c", " ", "=", " ", "2", " ", "}">>
\* `{ let a = 1 }`
SrcBlockNoValue ==
    <<"{", " ", "l", "e", "t", " ", "a", " ", "=", " ", "1", " ", "}">>
\* `{ let a = 1, let b = 2 }`
SrcBlockTwoLets ==
    <<"{", " ", "l", "e", "t", " ", "a", " ", "=", " ", "1", ",", " ", "l",
      "e", "t", " ", "b", " ", "=", " ", "2", " ", "}">>
\* `{ let a = 1, let b = { let a = 2, a }, a }`
SrcBlockInner ==
    <<"{", " ", "l", "e", "t", " ", "a", " ", "=", " ", "1", ",", " ", "l",
      "e", "t", " ", "b", " ", "=", " ", "{", " ", "l", "e", "t", " ", "a",
      " ", "=", " ", "2", ",", " ", "a", " ", "}", ",", " ", "a", " ", "}">>
BlockEvalSources ==
    {SrcBlockLetRead, SrcBlockFirstExpr, SrcBlockExprLet, SrcBlockLetExprLet,
     SrcBlockNoValue, SrcBlockTwoLets, SrcBlockInner}

\* Unary operators on operands of every kind
\* `!true`
SrcNotTrue ==
    <<"!", "t", "r", "u", "e">>
\* `!1`
SrcNotInt ==
    <<"!", "1">>
\* `-5`
SrcNegInt ==
    <<"-", "5">>
\* `-'a'`
SrcNegSym ==
    <<"-", "'", "a", "'">>
\* `~5`
SrcBitNotInt ==
    <<"~", "5">>
\* `~1.5`
SrcBitNotFloat ==
    <<"~", "1", ".", "5">>
\* `-{-32767 - 1}`
SrcNegOfMin ==
    <<"-", "{", "-", "3", "2", "7", "6", "7", " ", "-", " ", "1", "}">>
UnarySources ==
    {SrcNotTrue, SrcNotInt, SrcNegInt, SrcNegSym, SrcBitNotInt, SrcBitNotFloat,
     SrcNegOfMin, SrcFloatNeg}

NonBoolLefts == {LeftIntOr, LeftSymAnd, LeftTupleOr}
Lefts == {LeftTrueOr, LeftFalseAnd, LeftFalseOr, LeftTrueAnd} \cup NonBoolLefts
Rights ==
    {RightUnbound, RightVoid, RightTypes, RightBinds, RightTodo, RightDivZero,
     RightBool, RightInt}
EvalSources ==
    {SrcCurry, SrcLaterLet, SrcCallerOnly, SrcShadow, SrcCommented, SrcMulSym}
        \cup {l \o e : l \in Lefts, e \in Rights}
        \cup ArithSources \cup TotalSources \cup CtxSources \cup {SrcLetOverRead}
        \cup BlockEvalSources \cup UnarySources

\* What Session::eval_stmt hands back: Ok(Option<Value>), Err(SyntaxError),
\* Err(RuntimeError), or a panic.
Outcome(r) ==
    CASE r.tag = "ok" -> [tag |-> "ok", val |-> r.val]
      [] r.tag = "err" -> [tag |-> "RuntimeError", err |-> r.err]
      [] OTHER -> [tag |-> r.tag]
SyntaxError(kind) ==
    IF kind = "panic" THEN [tag |-> "panic"] ELSE [tag |-> "SyntaxError", err |-> kind]

\* Session::eval_stmt(source): parse_stmt (tokenize has run), then eval_stmt
\* in the session's scope and context scope.
SessionEvalStmt ==
    /\ lexPc = "done"
    /\ evaluated = <<>>
    /\ IF lexResult = "Ok"
       THEN \E pr \in {parse_stmt(source, tokens, interner)} :
                /\ interner' = pr.interner
                /\ IF pr.ok
                   THEN \E r \in {eval_stmt(pr.stmt, SessionScope, SessionCtx,
                                            [heap |-> heap, build |-> build,
                                             calls |-> <<>>, evals |-> <<>>])} :
                            /\ parsed' = <<[ok |-> TRUE, stmt |-> pr.stmt]>>
                            /\ evaluated' = <<Outcome(r)>>
                            /\ heap' = r.m.heap
                            /\ evalTrace' = [calls |-> r.m.calls, evals |-> r.m.evals]
                   ELSE /\ parsed' = <<[ok |-> FALSE, err |-> pr.err]>>
                        /\ evaluated' = <<SyntaxError(pr.err)>>
                        /\ UNCHANGED <<heap, evalTrace>>
       ELSE /\ evaluated' = <<SyntaxError(lexResult)>>
            /\ UNCHANGED <<interner, parsed, heap, evalTrace>>
    /\ UNCHANGED <<internHist, lexVars, build, bindArgs>>

\* Session::eval_stmt has evaluated a statement that is a block expression
BlockEvaluated ==
    /\ evaluated # <<>>
    /\ parsed # <<>>
    /\ parsed[1].ok
    /\ parsed[1].stmt.stmt = "Expr"
    /\ parsed[1].stmt.expr.kind = "Block"
\* The index of the first expression statement, 0 when there is none
FirstExpr(statements) ==
    IF \E k \in 1..Len(statements) : statements[k].stmt = "Expr"
    THEN CHOOSE k \in 1..Len(statements) :
             /\ statements[k].stmt = "Expr"
             /\ \A j \in 1..(k - 1) : statements[j].stmt = "Let"
    ELSE 0
\* The value each of the block sources yields
BlockValues ==
    [s \in BlockEvalSources \ {SrcBlockNoValue, SrcBlockTwoLets} |->
        IF s = SrcBlockExprLet THEN [tag |-> "RuntimeError", err |-> "Unbound"]
        ELSE [tag |-> "ok", val |-> Some(IntV(1))]]

\* eval_expr was entered on the expression e
WasEvaluated(e) == \E n \in 1..Len(evalTrace.evals) : evalTrace.evals[n] = e

\* C25: a block runs its statements in order in a fresh child scope of the
\* current lexical scope: each Let binds into the child scope only and the
\* enclosing lexical scope is unchanged afterwards, the first expression
\* statement's value is returned and no later statement is evaluated, and a
\* block that ends without an expression statement fails with Err(Void).
C25_BlockEvaluation ==
    BlockEvaluated =>
        /\ heap[SessionScope] = SessionHeap[SessionScope]
        /\ Len(heap) >= 3
        /\ heap[3].parent = Some(SessionScope)
        /\ \E at \in {FirstExpr(parsed[1].stmt.expr.stmts)} :
               /\ at = 0 => evaluated[1] = [tag |-> "RuntimeError", err |-> "Void"]
               /\ at > 0 =>
                      \A j \in (at + 1)..Len(parsed[1].stmt.expr.stmts) :
                          ~WasEvaluated(parsed[1].stmt.expr.stmts[j].expr)
               /\ (at > 0 /\ evaluated[1].tag = "ok") =>
                      \A j \in 1..at :
                          WasEvaluated(parsed[1].stmt.expr.stmts[j].expr)
               /\ source \in BlockEvalSources =>
                      Len(heap[3].bindings.keys) =
                          Cardinality({j \in 1..Len(parsed[1].stmt.expr.stmts) :
                                          /\ at = 0 \/ j < at
                                          /\ parsed[1].stmt.expr.stmts[j].stmt = "Let"})
        /\ source \in DOMAIN BlockValues => evaluated[1] = BlockValues[source]

\* `{ let a = 1, a, let c = 2 }` has yielded 1 with only a bound in the block's
\* scope.
C25_Witness ==
    /\ BlockEvaluated
    /\ source = SrcBlockLetExprLet
    /\ evaluated[1] = [tag |-> "ok", val |-> Some(IntV(1))]
    /\ Len(heap[3].bindings.keys) = 1
    /\ heap[SessionScope] = SessionHeap[SessionScope]

\* Session::eval_stmt has evaluated a statement that is a unary expression
UnaryEvaluated ==
    /\ evaluated # <<>>
    /\ parsed # <<>>
    /\ parsed[1].ok
    /\ parsed[1].stmt.stmt = "Expr"
    /\ parsed[1].stmt.expr.kind = "UnOp"

\* C27: evaluating a unary expression never panics: `-` on Int or Float
\* negates, `~` on Int inverts, and every other operator and operand,
\* including every use of `!`, returns Err(Types).
C27_UnaryNeverPanics ==
    UnaryEvaluated =>
        /\ evaluated[1].tag # "panic"
        /\ parsed[1].stmt.expr.un_op = "Not" =>
               evaluated[1] = [tag |-> "RuntimeError", err |-> "Types"]

\* The part of C27 that the code keeps: `-` and `~` on a literal operand.
C27_NegAndBitNotOnLiterals ==
    evaluated # <<>> =>
        /\ source = SrcNegInt => evaluated[1] = [tag |-> "ok", val |-> Some(IntV(-5))]
        /\ source = SrcBitNotInt => evaluated[1] = [tag |-> "ok", val |-> Some(IntV(-6))]
        /\ source = SrcFloatNeg => evaluated[1].tag = "ok"
        /\ source \in {SrcNegSym, SrcBitNotFloat} =>
               evaluated[1] = [tag |-> "RuntimeError", err |-> "Types"]

\* A path is its components; a component is a file name, split at its
\* last period into stem and extension ("" when it has none).
Component(stem, ext) == [stem |-> stem, ext |-> ext]
\* Path::with_extension("")
with_extension_empty(path) ==
    IF path = <<>> THEN path ELSE [path EXCEPT ![Len(path)].ext = ""]
\* c.as_os_str().to_str().unwrap()
to_str(c) == IF c.ext = "" THEN c.stem ELSE c.stem \o "." \o c.ext
\* .collect::<Vec<_>>().join(".")
RECURSIVE join_dots(_)
join_dots(path) ==
    IF path = <<>> THEN ""
    ELSE IF Len(path) = 1 THEN to_str(path[1])
    ELSE to_str(path[1]) \o "." \o join_dots(Tail(path))
\* Session::load, lines 48-53
module_path_of(path) == join_dots(with_extension_empty(path))
\* Session::load, lines 60-63: the segments pushed onto an empty PathBuf;
\* an identifier holds no period, so the component has no extension.
dep_path_of(i, segments) ==
    [k \in 1..Len(segments) |-> Component(lookup(i, segments[k]), "")]

\* The session a call works on: s = [interner, heap, modules, build] and the
\* histories reads (files read), ran (modules evaluated) and defs (the
\* definitions of each module put in the cache).
LOk(s) == [tag |-> "ok", s |-> s]
LErr(e, s) == [tag |-> e, s |-> s]
TryL(x, F(_)) == CHOOSE y \in {IF v.tag # "ok" THEN v ELSE F(v) : v \in {x}} : TRUE
Machine(s) == [heap |-> s.heap, build |-> s.build, calls |-> <<>>, evals |-> <<>>]

\* eval_module: the loop over module_ast.defs in the scope and context
\* scope it was given
RECURSIVE eval_defs(_, _, _, _)
eval_defs(statements, scope, ctx, m) ==
    IF statements = <<>> THEN VOk("unit", m)
    ELSE TryV(eval_stmt(Head(statements), scope, ctx, m), LAMBDA r :
             eval_defs(Tail(statements), scope, ctx, r.m))
\* eval_module: Mod { deps, scope: Default::default() } is built first, a
\* new empty scope behind a new handle.
eval_module(module_ast, scope, ctx, m) ==
    Then(Alloc(m, ScopeNew(None)), LAMBDA m1 :
        TryV(eval_defs(module_ast.defs, scope, ctx, m1), LAMBDA r :
            VOk([deps |-> module_ast.deps, scope |-> Len(m1.heap)], r.m)))

\* self.load(&dep_path, false)?: the reload flag handed to a dependency
dep_reload_transitive(reload) == reload
dep_reload(reload) == FALSE

\* Session::load.  The recursion has no guard against a dependency cycle;
\* a chain deeper than MaxLoadDepth stands for its stack overflow.
MaxLoadDepth == 3
RECURSIVE load(_, _, _, _, _), load_deps(_, _, _, _, _)
load_deps(files, s, ds, reload, depth) ==
    IF ds = <<>> THEN LOk(s)
    ELSE TryL(load(files, s, dep_path_of(s.interner, Head(ds).path.segments),
                   dep_reload(reload), depth + 1), LAMBDA r :
             load_deps(files, r.s, Tail(ds), reload, depth))
load(files, s, path, reload, depth) ==
    IF ~reload /\ module_path_of(path) \in DOMAIN s.modules THEN LOk(s)
    ELSE IF depth > MaxLoadDepth THEN LErr("overflow", s)
    ELSE IF path \notin DOMAIN files THEN LErr("IoError", s)
    ELSE Then([s EXCEPT !.reads = Append(@, path)], LAMBDA s1 :
         Then(tokenize(files[path]), LAMBDA t :
         IF t.tag = "hang" THEN LErr("hang", s1)
         ELSE IF t.tag = "err" THEN LErr("SyntaxError", s1)
         ELSE Then(parse_module(files[path], t.tokens, s1.interner), LAMBDA pm :
         Then([s1 EXCEPT !.interner = pm.interner], LAMBDA s2 :
         IF ~pm.ok THEN LErr(IF pm.err = "panic" THEN "panic" ELSE "SyntaxError", s2)
         ELSE TryL(load_deps(files, s2, pm.module.deps, reload, depth), LAMBDA ld :
         Then(eval_module(pm.module, SessionScope, SessionCtx, Machine(ld.s)), LAMBDA em :
         Then([ld.s EXCEPT !.heap = em.m.heap,
                           !.ran = Append(@, module_path_of(path))], LAMBDA s3 :
         IF em.tag = "err" THEN LErr("RuntimeError", s3)
         ELSE IF em.tag # "ok" THEN LErr("panic", s3)
         ELSE LOk([s3 EXCEPT
                      !.modules = MapInsert(@, module_path_of(path), em.val),
                      !.defs = MapInsert(@, module_path_of(path), pm.module)]))))))))

\* Session::eval_stmt(stmt_source) as one call: tokenize, parse_stmt,
\* eval_stmt in the session's scope and context scope.
session_eval_stmt(s, line) ==
    Then(tokenize(line), LAMBDA t :
    IF t.tag = "hang" THEN [tag |-> "hang", s |-> s]
    ELSE IF t.tag = "err" THEN [tag |-> "SyntaxError", err |-> t.err, s |-> s]
    ELSE Then(parse_stmt(line, t.tokens, s.interner), LAMBDA ps :
    Then([s EXCEPT !.interner = ps.interner], LAMBDA s1 :
    IF ~ps.ok
    THEN (IF ps.err = "panic" THEN [tag |-> "panic", s |-> s1]
          ELSE [tag |-> "SyntaxError", err |-> ps.err, s |-> s1])
    ELSE Then(eval_stmt(ps.stmt, SessionScope, SessionCtx, Machine(s1)), LAMBDA r :
    Then([s1 EXCEPT !.heap = r.m.heap], LAMBDA s2 :
    IF r.tag = "ok" THEN [tag |-> "ok", val |-> r.val, s |-> s2]
    ELSE IF r.tag = "err" THEN [tag |-> "RuntimeError", err |-> r.err, s |-> s2]
    ELSE [tag |-> "panic", s |-> s2])))))

\* The files of the package root and the REPL lines
PMain == <<Component("main", "vamp")>>
PA == <<Component("a", "vamp")>>
PABare == <<Component("a", "")>>
PBad == <<Component("bad", "vamp")>>
PFail == <<Component("fail", "vamp")>>
PGone == <<Component("gone", "vamp")>>
PCycle == <<Component("cycle", "")>>
\* `use { .a (x) } let y = x`
MainSrc ==
    <<"u", "s", "e", " ", "{", " ", ".", "a", " ", "(", "x", ")", " ", "}",
      " ", "l", "e", "t", " ", "y", " ", "=", " ", "x">>
\* `let x = 42`
ASrc ==
    <<"l", "e", "t", " ", "x", " ", "=", " ", "4", "2">>
\* `let x = 43`
ABareSrc ==
    <<"l", "e", "t", " ", "x", " ", "=", " ", "4", "3">>
\* `let`
BadSrc ==
    <<"l", "e", "t">>
\* `let z = q`
FailSrc ==
    <<"l", "e", "t", " ", "z", " ", "=", " ", "q">>
\* `y`
\* `use { .cycle (x) }`
CycleSrc ==
    <<"u", "s", "e", " ", "{", " ", ".", "c", "y", "c", "l", "e", " ", "(",
      "x", ")", " ", "}">>
LineY ==
    <<"y">>
\* `x`
LineX ==
    <<"x">>
\* the claim's package: main.vamp and a.vamp
FsClaim == (PMain :> MainSrc) @@ (PA :> ASrc)
\* a package that also has a file `a` without extension, a file that does
\* not parse, one whose definition fails and one that depends on itself
FsBare ==
    (PMain :> MainSrc) @@ (PA :> ASrc) @@ (PABare :> ABareSrc) @@ (PBad :> BadSrc)
        @@ (PFail :> FailSrc) @@ (PCycle :> CycleSrc)
FileSystems == {FsClaim, FsBare}
LoadPaths == {PMain, PA, PABare, PBad, PFail, PGone, PCycle}
ReplLines == {LineY, LineX}

\* The Session behind the variables, with the histories of one call empty
SessionState ==
    [interner |-> interner, heap |-> heap, modules |-> modules, build |-> build,
     reads |-> <<>>, ran |-> <<>>, defs |-> moduleDefs]
MaxCalls == 3

\* session.load(path, reload)
SessionLoad ==
    /\ mainPc = "calling"
    /\ Len(sessionLog) < MaxCalls
    /\ \E path \in LoadPaths, reload \in BOOLEAN :
           \E r \in {load(fs, SessionState, path, reload, 0)} :
               /\ interner' = r.s.interner
               /\ heap' = r.s.heap
               /\ modules' = r.s.modules
               /\ moduleDefs' = r.s.defs
               /\ sessionLog' = Append(sessionLog,
                      [op |-> "load", path |-> path, reload |-> reload,
                       cached |-> DOMAIN modules, reads |-> r.s.reads, ran |-> r.s.ran,
                       tag |-> r.tag,
                       same |-> /\ r.s.interner = interner
                                /\ r.s.heap = heap
                                /\ r.s.modules = modules])
               /\ mainPc' = IF r.tag \in {"panic", "hang", "overflow"} THEN r.tag
                            ELSE "calling"
    /\ UNCHANGED <<fs, internHist, build>>

\* No element occurs twice in the sequence
NoRepeat(seq) == \A i, j \in 1..Len(seq) : seq[i] = seq[j] => i = j

\* C28: Session::load terminates for every finite set of module files,
\* cyclic module graphs included: each module is read and evaluated at most
\* once per top-level load call.
C28_LoadTerminates ==
    \A n \in 1..Len(sessionLog) :
        sessionLog[n].op = "load" =>
            /\ sessionLog[n].tag # "overflow"
            /\ NoRepeat(sessionLog[n].reads)
            /\ NoRepeat(sessionLog[n].ran)

\* The part of C28 that the code keeps: where no module depends on itself,
\* a load returns and reads and evaluates each module at most once.
C28_AcyclicLoadTerminates ==
    \A n \in 1..Len(sessionLog) :
        (sessionLog[n].op = "load" /\ sessionLog[n].path # PCycle) =>
            /\ sessionLog[n].tag # "overflow"
            /\ NoRepeat(sessionLog[n].reads)
            /\ NoRepeat(sessionLog[n].ran)

\* session.eval_stmt(line)
SessionEvalLine ==
    /\ mainPc = "calling"
    /\ Len(sessionLog) < MaxCalls
    /\ \E line \in ReplLines :
           \E r \in {session_eval_stmt(SessionState, line)} :
               /\ interner' = r.s.interner
               /\ heap' = r.s.heap
               /\ sessionLog' = Append(sessionLog,
                      [op |-> "eval", line |-> line, cached |-> DOMAIN modules,
                       result |-> [x \in DOMAIN r \ {"s"} |-> r[x]]])
               /\ mainPc' = IF r.tag \in {"panic", "hang"} THEN r.tag ELSE "calling"
    /\ UNCHANGED <<fs, modules, moduleDefs, internHist, build>>

\* SourceEvent
File(path) == [ev |-> "File", path |-> path]
Repl(line) == [ev |-> "Repl", line |-> line]
Exit == [ev |-> "Exit"]
\* the files whose change the watcher may report
ChangedPaths == {PMain, PA, PABare, PBad, PGone}
MaxEvents == 3
\* tx.send(event): the channel is unbounded and keeps the order of sends
Send(event) ==
    /\ Len(sent) < MaxEvents
    /\ mainPc \in {"start", "draining"}
    /\ channel' = Append(channel, event)
    /\ sent' = Append(sent, event)

\* the debouncer callback: a changed file with the extension vamp is sent
WatcherSend ==
    /\ \E path \in ChangedPaths :
           /\ path[Len(path)].ext = "vamp"
           /\ Send(File(path))
    /\ UNCHANGED <<fs, modules, moduleDefs, sessionLog, mainPc, replPc, received>>
    /\ UNCHANGED <<internVars, heap, build>>
\* the REPL thread: Ok(line)
ReplSend ==
    /\ replPc = "reading"
    /\ \E line \in ReplLines : Send(Repl(line))
    /\ UNCHANGED <<fs, modules, moduleDefs, sessionLog, mainPc, replPc, received>>
    /\ UNCHANGED <<internVars, heap, build>>
\* the REPL thread: Interrupted or Eof, Exit is sent and the thread ends
ReplSendExit ==
    /\ replPc = "reading"
    /\ Send(Exit)
    /\ replPc' = "ended"
    /\ UNCHANGED <<fs, modules, moduleDefs, sessionLog, mainPc, received>>
    /\ UNCHANGED <<internVars, heap, build>>
\* the REPL thread: any other readline error ends it and sends nothing
ReplFail ==
    /\ replPc = "reading"
    /\ mainPc \in {"start", "draining"}
    /\ replPc' = "ended"
    /\ UNCHANGED <<fs, modules, moduleDefs, sessionLog, mainPc, channel, sent, received>>
    /\ UNCHANGED <<internVars, heap, build>>

\* Result::unwrap on the result of load: where the main thread stands next
unwrap_load(tag) ==
    IF tag = "ok" THEN "draining"
    ELSE IF tag \in {"hang", "overflow"} THEN tag
    ELSE "panicked"
\* main, line 155: session.load(entry, false).unwrap()
MainLoadEntry ==
    /\ mainPc = "start"
    /\ \E r \in {load(fs, SessionState, PMain, FALSE, 0)} :
           /\ interner' = r.s.interner
           /\ heap' = r.s.heap
           /\ modules' = r.s.modules
           /\ moduleDefs' = r.s.defs
           /\ sessionLog' = Append(sessionLog,
                  [op |-> "load", path |-> PMain, reload |-> FALSE,
                   cached |-> DOMAIN modules, reads |-> r.s.reads, ran |-> r.s.ran,
                   tag |-> r.tag,
                   same |-> /\ r.s.interner = interner
                            /\ r.s.heap = heap
                            /\ r.s.modules = modules])
           /\ mainPc' = unwrap_load(r.tag)
    /\ UNCHANGED <<fs, internHist, build, replPc, channel, sent, received>>

\* SourceEvent::Exit => break
drain_exit_ignored == "draining"
drain_exit == "done"
\* main, lines 156-169: one turn of `for event in rx`
MainRecv ==
    /\ mainPc = "draining"
    /\ channel # <<>>
    /\ channel' = Tail(channel)
    /\ received' = Append(received, Head(channel))
    /\ \E event \in {Head(channel)} :
           \/ /\ event.ev = "File"
              /\ \E r \in {load(fs, SessionState, event.path, TRUE, 0)} :
                     /\ interner' = r.s.interner
                     /\ heap' = r.s.heap
                     /\ modules' = r.s.modules
                     /\ moduleDefs' = r.s.defs
                     /\ sessionLog' = Append(sessionLog,
                            [op |-> "load", path |-> event.path, reload |-> TRUE,
                             cached |-> DOMAIN modules, reads |-> r.s.reads,
                             ran |-> r.s.ran, tag |-> r.tag,
                             same |-> /\ r.s.interner = interner
                                      /\ r.s.heap = heap
                                      /\ r.s.modules = modules])
                     /\ mainPc' = unwrap_load(r.tag)
           \/ /\ event.ev = "Repl"
              /\ \E r \in {session_eval_stmt(SessionState, event.line)} :
                     /\ interner' = r.s.interner
                     /\ heap' = r.s.heap
                     /\ sessionLog' = Append(sessionLog,
                            [op |-> "eval", line |-> event.line,
                             cached |-> DOMAIN modules,
                             result |-> [x \in DOMAIN r \ {"s"} |-> r[x]]])
                     /\ mainPc' = IF r.tag = "hang" THEN "hang"
                                  ELSE IF r.tag = "panic" THEN "panicked"
                                  ELSE "draining"
              /\ UNCHANGED <<modules, moduleDefs>>
           \/ /\ event.ev = "Exit"
              /\ mainPc' = drain_exit
              /\ UNCHANGED <<interner, heap, modules, moduleDefs, sessionLog>>
    /\ UNCHANGED <<fs, internHist, build, replPc, sent>>

\* The patterns and values handed to bind.  Symbols are interner handles:
\* 0, 1, 2 are identifiers, 3 and 4 are keys, 5 is a symbol literal.
BindLeaves ==
    {IdentP(0), CtxIdentP(2), WildP, IntP(1), SymP(5), StrP(<<"s">>), BoolP(TRUE),
     FloatP("1.5")}
BindSecond == {IdentP(1), CtxIdentP(1), WildP, IntP(2)}
BindPatterns ==
    BindLeaves
        \cup {TupleP(from_iter(<<Pos(x)>>)) : x \in BindLeaves}
        \cup {TupleP(from_iter(<<Pos(x), Pos(y)>>)) : x \in BindLeaves, y \in BindSecond}
        \cup {TupleP(from_iter(<<Pos(x), Named(3, y)>>)) : x \in BindLeaves, y \in BindSecond}
        \cup {TupleP(from_iter(<<Named(3, x), Named(4, y)>>)) : x \in BindLeaves, y \in BindSecond}
        \cup {TupleP(from_iter(<<Pos(IdentP(0)),
                                 Pos(TupleP(from_iter(<<Pos(IdentP(1)), Named(3, y)>>)))>>)) :
                 y \in {CtxIdentP(2), IdentP(2)}}
BindValues ==
    {IntV(1), SymV(5), StrV(<<"s">>), BoolV(TRUE), FloatV("1.5"),
     TupleV(TupleNew),
     TupleV(from_iter(<<Pos(IntV(1))>>)),
     TupleV(from_iter(<<Pos(IntV(1)), Pos(IntV(2))>>)),
     TupleV(from_iter(<<Pos(SymV(5)), Pos(IntV(2)), Pos(IntV(7))>>)),
     TupleV(from_iter(<<Named(3, IntV(2))>>)),
     TupleV(from_iter(<<Pos(IntV(1)), Named(3, IntV(2))>>)),
     TupleV(from_iter(<<Pos(IntV(1)), Named(4, IntV(2))>>)),
     TupleV(from_iter(<<Named(3, IntV(1)), Named(4, IntV(2))>>)),
     TupleV(from_iter(<<Pos(IntV(1)),
                        Pos(TupleV(from_iter(<<Pos(IntV(2)), Named(3, IntV(7))>>)))>>)),
     TupleV(from_iter(<<Pos(IntV(1)),
                        Pos(TupleV(from_iter(<<Named(3, IntV(7))>>)))>>))}

\* bind(&mut scope, &mut ctx, pat, value) on the session's two scopes
BindCall ==
    /\ bindArgs # <<>>
    /\ evaluated = <<>>
    /\ \E r \in {bind([heap |-> heap, build |-> build, calls |-> <<>>, evals |-> <<>>],
                      SessionScope, SessionCtx, bindArgs[1].pattern, bindArgs[1].value)} :
           /\ evaluated' = <<Outcome(r)>>
           /\ heap' = r.m.heap
    /\ UNCHANGED <<evalTrace, build, bindArgs>>

(***************************************************************************)
(* Claims about the lexer                                                  *)
(***************************************************************************)
\* A synthetic comma is the only token with a zero-width span.
Synthetic(t) == t.kind = "Comma" /\ t.start = t.end
\* A newline among the source bytes [a, b).
NewlineBetween(a, b) == \E i \in (a + 1)..b : source[i] = "\n"

\* C3: the lexer emits a synthetic zero-width Comma directly after an emitted
\* token t exactly when t is a statement-closer and the whitespace and
\* comments skipped between t and the next token (or the end of the input)
\* contain a newline; in no other situation.
C3_AutoCommaIffNewlineAfterCloser ==
    /\ \A i \in 1..Len(tokens) :
           Synthetic(tokens[i]) <=>
               /\ i > 1
               /\ tokens[i - 1].kind \in StatementClosers
               /\ NewlineBetween(tokens[i - 1].end, tokens[i].start)
    /\ (lexResult = "Ok" /\ Len(tokens) > 0) =>
           ~ /\ tokens[Len(tokens)].kind \in StatementClosers
             /\ NewlineBetween(tokens[Len(tokens)].end, Len(source))

\* The source bytes no token span covers
Covered(k) == \E i \in 1..Len(tokens) : tokens[i].start < k /\ k <= tokens[i].end
\* Byte k lies in a `#` comment: an uncovered `#` before it on the same line
InComment(k) ==
    \E h \in 1..k :
        /\ source[h] = "#"
        /\ ~Covered(h)
        /\ \A j \in h..k : source[j] # "\n"

\* C21: when tokenize returns Ok the token spans lie within the source, are in
\* order and do not overlap, a comma that is not the lexeme `,` has a
\* zero-width span, and every byte no span covers is skipped ASCII whitespace
\* or part of a `#` comment: no byte of the input is dropped.
C21_SpansAccountForSource ==
    lexResult = "Ok" =>
        /\ \A i \in 1..Len(tokens) :
               /\ 0 <= tokens[i].start
               /\ tokens[i].start <= tokens[i].end
               /\ tokens[i].end <= Len(source)
               /\ i > 1 => tokens[i - 1].end <= tokens[i].start
               /\ tokens[i].kind = "Comma" =>
                      \/ tokens[i].start = tokens[i].end
                      \/ SubSeq(source, tokens[i].start + 1, tokens[i].end) = <<",">>
        /\ \A k \in 1..Len(source) :
               Covered(k) \/ source[k] \in AsciiWhitespace \/ InComment(k)

\* C4: for every finite source of ASCII bytes tokenize terminates, returning
\* Ok(tokens) or Err; this covers sources that end inside a `#` comment.
C4_TokenizeTerminates == <>(lexPc = "done")

(***************************************************************************)
(* Claims about the tuple container                                        *)
(***************************************************************************)
PositionalCount == len(tuple) - keys_len(tuple)

\* C7: positional access by integer index i returns the i-th positional entry
\* when 0 <= i < len - keys_len and fails (None) for every other i; it never
\* returns the value of a named entry.
C7_PositionalGetStaysPositional ==
    tupleHist.ret.op = "get_usize" =>
        IF tupleHist.ret.i < PositionalCount /\ tupleHist.ret.i < Len(tupleHist.pushed)
        THEN tupleHist.ret.res = Some(tupleHist.pushed[tupleHist.ret.i + 1])
        ELSE tupleHist.ret.res = None

\* C8: after any sequence of push and insert calls from an empty tuple the
\* key array is strictly increasing, keys_len <= len, the positional prefix
\* holds the pushed values in push order, slot (len - keys_len + j) holds the
\* value of the j-th smallest key, get(key) returns the value most recently
\* inserted under the key, and insert on an existing key replaces the value
\* and leaves len unchanged.
C8_TupleLayout ==
    /\ \A a, b \in 1..Len(tuple.keys) : a < b => tuple.keys[a] < tuple.keys[b]
    /\ keys_len(tuple) <= len(tuple)
    /\ PositionalCount = Len(tupleHist.pushed)
    /\ \A a \in 1..Len(tupleHist.pushed) : tuple.data[a] = tupleHist.pushed[a]
    /\ {tuple.keys[j] : j \in 1..Len(tuple.keys)} = DOMAIN tupleHist.named
    /\ \A j \in 1..Len(tuple.keys) :
           tuple.data[PositionalCount + j] = tupleHist.named[tuple.keys[j]]
    /\ \A k \in Keys :
           get_sym(tuple, k) = IF k \in DOMAIN tupleHist.named
                               THEN Some(tupleHist.named[k]) ELSE None
    /\ tupleHist.ret.op = "get_sym" =>
           tupleHist.ret.res = IF tupleHist.ret.key \in DOMAIN tupleHist.named
                               THEN Some(tupleHist.named[tupleHist.ret.key]) ELSE None
    /\ tupleHist.ret.op = "insert" =>
           IF tupleHist.ret.known
           THEN tupleHist.ret.res.some /\ len(tuple) = tupleHist.ret.lenBefore
           ELSE tupleHist.ret.res = None /\ len(tuple) = tupleHist.ret.lenBefore + 1

\* A key is replaced in a tuple that holds pushed values and several keys.
C8_Witness ==
    /\ tupleHist.ret.op = "insert"
    /\ tupleHist.ret.known
    /\ Len(tupleHist.pushed) >= 2
    /\ keys_len(tuple) >= 2

(***************************************************************************)
(* Claims about the interner                                               *)
(***************************************************************************)
\* C9: after any sequence of intern calls on a fresh interner, intern(s)
\* returns the same handle every time it is given s, distinct strings get
\* distinct handles, handles are handed out as 0, 1, 2, ... in order of first
\* interning, and lookup(intern(s)) = s.
C9_InternIdempotentInjective ==
    /\ \A s \in DOMAIN internHist.first :
           /\ intern(interner, s).sym = internHist.first[s]
           /\ lookup(interner, intern(interner, s).sym) = s
    /\ \A s, t \in DOMAIN internHist.first :
           s # t => internHist.first[s] # internHist.first[t]
    /\ \A j \in 1..Len(internHist.order) :
           internHist.first[internHist.order[j]] = j - 1
    /\ internHist.ret.op = "intern" =>
           internHist.ret.res = internHist.first[internHist.ret.arg]
    /\ internHist.ret.op = "lookup" =>
           internHist.first[internHist.ret.res] = internHist.ret.arg

\* A known string is interned again after three strings were interned.
C9_Witness ==
    /\ internHist.ret.op = "intern"
    /\ internHist.ret.known
    /\ Len(internHist.order) >= 3

\* C10: under any interleaving of intern and private calls every handle stays
\* stable: private() returns a handle different from all handles returned
\* earlier, and a string interned before keeps the handle it got the first
\* time.
C10_HandlesStableUnderPrivate ==
    /\ internHist.ret.op = "private" => internHist.ret.fresh
    /\ internHist.ret.op = "intern" =>
           internHist.ret.res = internHist.first[internHist.ret.arg]

(***************************************************************************)
(* Claims about the parser                                                 *)
(***************************************************************************)
\* The identifiers are interned in order of appearance: a, b, c are the
\* handles 0, 1, 2, and f, x, g, y, h, z are 0 .. 5.
RightNested(o1, o2, x, y, z) ==
    BinOpE(BinOpTable[o1].op, x, BinOpE(BinOpTable[o2].op, y, z))
LeftNested(o1, o2, x, y, z) ==
    BinOpE(BinOpTable[o2].op, BinOpE(BinOpTable[o1].op, x, y), z)
CallOf(f, x) == CallE(IdentE(f), from_iter(<<Pos(IdentE(x))>>))
ParsedOk(e) == parsed = <<[ok |-> TRUE, expr |-> e]>>

\* C5: for all binary operators o1, o2 with the left binding power of o1
\* lower than that of o2, parse_expr of `a o1 b o2 c` is
\* BinOp(o1, a, BinOp(o2, b, c)); calls bind tighter than every operator: the
\* same holds with the operands f(x), g(y), h(z), and `f(x) * g(y) + h(z)`
\* is BinOp(Add, BinOp(Mul, Call(f,(x)), Call(g,(y))), Call(h,(z))).
C5_LowerBindsLooser ==
    parsed # <<>> =>
        /\ \A o1, o2 \in BinOpKinds :
               BinOpTable[o1].l_prec < BinOpTable[o2].l_prec =>
                   /\ source = Infix3(o1, o2) =>
                          ParsedOk(RightNested(o1, o2, IdentE(0), IdentE(1), IdentE(2)))
                   /\ source = CallInfix3(o1, o2) =>
                          ParsedOk(RightNested(o1, o2, CallOf(0, 1), CallOf(2, 3), CallOf(4, 5)))
        /\ source = CallInfix3("Star", "Plus") =>
               ParsedOk(BinOpE("Add", BinOpE("Mul", CallOf(0, 1), CallOf(2, 3)), CallOf(4, 5)))
C5_Witness ==
    /\ source = Infix3("Plus", "Star")
    /\ ParsedOk(BinOpE("Add", IdentE(0), BinOpE("Mul", IdentE(1), IdentE(2))))

\* C6 as the specification states it: `**` and `.` are right-associative
\* (`a ** b ** c` is BinOp(Exp, a, BinOp(Exp, b, c)), `a.b.c` is
\* BinOp(Dot, a, BinOp(Dot, b, c))) and every other binary operator is
\* left-associative.
C6_ExpAndDotRightAssociative ==
    parsed # <<>> =>
        /\ \A o \in BinOpKinds :
               source = Infix3(o, o) =>
                   IF o \in {"StarStar", "Period"}
                   THEN ParsedOk(RightNested(o, o, IdentE(0), IdentE(1), IdentE(2)))
                   ELSE ParsedOk(LeftNested(o, o, IdentE(0), IdentE(1), IdentE(2)))
        /\ source = DotChain =>
               ParsedOk(RightNested("Period", "Period", IdentE(0), IdentE(1), IdentE(2)))

\* C6, amended: every binary operator of the table, `**` and `.` included,
\* is left-associative: `a op b op c` is BinOp(op, BinOp(op, a, b), c), and
\* `a.b.c` is BinOp(Dot, BinOp(Dot, a, b), c).
C6_AllLeftAssociative ==
    parsed # <<>> =>
        /\ \A o \in BinOpKinds :
               source = Infix3(o, o) =>
                   ParsedOk(LeftNested(o, o, IdentE(0), IdentE(1), IdentE(2)))
        /\ source = DotChain =>
               ParsedOk(LeftNested("Period", "Period", IdentE(0), IdentE(1), IdentE(2)))
C6_Witness ==
    /\ source = Infix3("StarStar", "StarStar")
    /\ ParsedOk(BinOpE("Exp", BinOpE("Exp", IdentE(0), IdentE(1)), IdentE(2)))

(***************************************************************************)
(* Claims about the evaluator                                              *)
(***************************************************************************)
Returned(val) == evaluated = <<[tag |-> "ok", val |-> Some(val)]>>
Raised(e) == evaluated = <<[tag |-> "RuntimeError", err |-> e]>>

\* C1: a called function's body runs in a fresh call scope whose parent is
\* the scope handle the function captured when it was created, so a binding
\* a later let adds to that scope is visible, and a binding that only the
\* caller's scope holds is not: `{ let add = |x| |y| x + y, add(2)(3) }` is
\* Int(5).
C1_CallScopeParentIsCaptured ==
    evaluated # <<>> =>
        /\ \A i \in 1..Len(evalTrace.calls) :
               heap[evalTrace.calls[i].call_scope].parent
                   = Some(evalTrace.calls[i].captured)
        /\ source = SrcCurry => Returned(IntV(5))
        /\ source = SrcLaterLet => Returned(IntV(7))
        /\ source = SrcCallerOnly => Raised("Unbound")
        /\ source = SrcShadow => Returned(IntV(1))
C1_Witness ==
    /\ source = SrcCurry
    /\ Returned(IntV(5))
    /\ Len(evalTrace.calls) = 2
    /\ evalTrace.calls[2].caller # evalTrace.calls[2].captured

\* C2: for every expression e, `true || e` is Bool(true) and `false && e` is
\* Bool(false) and e is not evaluated (no error of e is raised, no scope
\* changes, eval_expr is entered for the operator and its left operand
\* only); with a left operand that is not a Bool the result is Err(Types).
C2_ShortCircuit ==
    evaluated # <<>> =>
        \A e \in Rights :
            /\ source = LeftTrueOr \o e =>
                   /\ Returned(BoolV(TRUE))
                   /\ heap = SessionHeap
                   /\ Len(evalTrace.evals) = 2 /\ evalTrace.evals[2] = BoolE(TRUE)
            /\ source = LeftFalseAnd \o e =>
                   /\ Returned(BoolV(FALSE))
                   /\ heap = SessionHeap
                   /\ Len(evalTrace.evals) = 2 /\ evalTrace.evals[2] = BoolE(FALSE)
            /\ \A l \in NonBoolLefts : source = l \o e => Raised("Types")
C2_Witness ==
    /\ source = LeftTrueOr \o RightBinds
    /\ Returned(BoolV(TRUE))
    /\ heap = SessionHeap

ReturnedVariant(k) ==
    /\ Len(evaluated) = 1
    /\ evaluated[1].tag = "ok"
    /\ evaluated[1].val.some
    /\ evaluated[1].val.val.v = k

\* C11: for each of + - * / % **, two Int operands give an Int, two Float
\* operands give a Float, and every other pair of operand variants gives
\* Err(Types); `2 * -1 + 10 / 2` is Int(3) and `0 * 'abc'` is Err(Types).
C11_ArithmeticTyped ==
    evaluated # <<>> =>
        /\ \A op \in ArithOps : \A l, r \in ArithTexts :
               source = ArithSource(l, op, r) =>
                   IF l \in IntTexts /\ r \in IntTexts THEN ReturnedVariant("Int")
                   ELSE IF l \in FloatTexts /\ r \in FloatTexts THEN ReturnedVariant("Float")
                   ELSE Raised("Types")
        /\ source = SrcArithTest => Returned(IntV(3))
        /\ source = SrcMulSym => Raised("Types")

\* C12: + - * ** and unary - on two Int or two Float operands, and / and %
\* with a divisor that is not zero, return a value and never panic, also
\* with a negative exponent or a result outside the i64 range.
C12_ArithmeticTotal ==
    (evaluated # <<>> /\ source \in TotalSources) => evaluated[1].tag = "ok"

\* C15: the context scope is dynamically scoped: a function body runs under
\* the context scope of the call, so `@name` in the body is the binding the
\* caller's context scope holds when the call happens, and a function value
\* stores nothing of the context scope there was when it was created.
C15_ContextIsTheCallers ==
    (evaluated # <<>> /\ source \in CtxSources) =>
        /\ \A i \in 1..Len(evalTrace.calls) :
               evalTrace.calls[i].body_ctx = evalTrace.calls[i].caller_ctx
        /\ \A h \in DOMAIN heap : \A i \in DOMAIN heap[h].bindings.data :
               heap[h].bindings.data[i].v = "Fn" =>
                   DOMAIN heap[h].bindings.data[i] = {"v", "params", "body", "scope"}
        /\ source = SrcCtxAtCall => Returned(IntV(2))
        /\ source = SrcCtxUnbound => Raised("Unbound")
        /\ source = SrcCtxParam =>
               /\ Returned(IntV(5))
               /\ Len(heap[SessionCtx].bindings.data) = 1
        /\ source = SrcCtxCaller => Returned(IntV(3))
C15_Witness ==
    /\ source = SrcCtxCaller
    /\ Returned(IntV(3))
    /\ Len(evalTrace.calls) = 2
    /\ evalTrace.calls[2].captured # evalTrace.calls[2].caller

\* The sub-value of an Option<Value> that a tuple pattern's k-th entry (in
\* iteration order, positional entries first) stands for: the k-th
\* positional entry of the value, or its entry under the key.
EntryOf(entry, k, sub) ==
    IF ~sub.some THEN None
    ELSE IF sub.val.v # "Tuple" THEN None
    ELSE IF entry.entry = "Pos"
    THEN (IF k <= named_offset(sub.val.tuple) THEN Some(sub.val.tuple.data[k]) ELSE None)
    ELSE get_sym(sub.val.tuple, entry.key)

\* The identifiers of a pattern, each with the scope it binds in and the
\* sub-value at its place.
RECURSIVE SubValues(_, _)
SubValues(pattern, sub) ==
    CASE pattern.pat = "Ident" -> {[name |-> pattern.sym, in_ctx |-> FALSE, sub |-> sub]}
      [] pattern.pat = "CtxIdent" ->
            {[name |-> pattern.ctx_sym, in_ctx |-> TRUE, sub |-> sub]}
      [] pattern.pat = "Tuple" ->
            UNION {SubValues(iter(pattern.tuple)[k].value,
                             EntryOf(iter(pattern.tuple)[k], k, sub)) :
                       k \in 1..len(pattern.tuple)}
      [] OTHER -> {}

\* C13: when bind(p, v) succeeds, every Ident of p is bound in the lexical
\* scope and every CtxIdent of p in the context scope, each to the sub-value
\* of v at the position or key the identifier has in p.
C13_BoundToSubValues ==
    (bindArgs # <<>> /\ evaluated # <<>> /\ evaluated[1].tag = "ok") =>
        \A x \in SubValues(bindArgs[1].pattern, Some(bindArgs[1].value)) :
            /\ x.sub.some
            /\ get_sym(heap[IF x.in_ctx THEN SessionCtx ELSE SessionScope].bindings,
                       x.name) = x.sub

\* C14: binding a tuple pattern to a tuple value is Err(Mismatch) when the
\* pattern has more positional sub-patterns than the value has positional
\* entries, or names a key the value does not have.
C14_OverReadIsMismatch ==
    (/\ bindArgs # <<>>
     /\ evaluated # <<>>
     /\ bindArgs[1].pattern.pat = "Tuple"
     /\ bindArgs[1].value.v = "Tuple"
     /\ \/ named_offset(bindArgs[1].pattern.tuple) > named_offset(bindArgs[1].value.tuple)
        \/ \E i \in 1..keys_len(bindArgs[1].pattern.tuple) :
               ~binary_search(bindArgs[1].value.tuple.keys,
                              bindArgs[1].pattern.tuple.keys[i]).found)
        => Raised("Mismatch")

\* C29: pattern binding is all-or-nothing: when a bind fails with
\* Err(Mismatch) part-way through a tuple pattern, the lexical scope and the
\* context scope hold exactly the bindings they held before the attempt.
C29_MismatchBindsNothing ==
    (/\ bindArgs # <<>>
     /\ evaluated # <<>>
     /\ evaluated[1] = [tag |-> "RuntimeError", err |-> "Mismatch"])
        => heap = SessionHeap

\* The part of C29 that the code keeps: a Mismatch on a pattern that is not
\* a tuple, or on a value that is not a tuple, binds nothing.
C29_LeafMismatchBindsNothing ==
    (/\ bindArgs # <<>>
     /\ evaluated # <<>>
     /\ evaluated[1] = [tag |-> "RuntimeError", err |-> "Mismatch"]
     /\ bindArgs[1].pattern.pat # "Tuple" \/ bindArgs[1].value.v # "Tuple")
        => heap = SessionHeap

\* The elements of a sequence
Range(seq) == {seq[k] : k \in DOMAIN seq}

\* C16: a dependency with segments s1...sn is read from <root>/s1/.../sn.vamp;
\* with main.vamp = `use { .a (x) } let y = x` and a.vamp = `let x = 42`
\* loading main succeeds and a following eval_stmt("y") returns Int(42).
C16_DependencyReadWithExtension ==
    \A k \in DOMAIN sessionLog :
        /\ sessionLog[k].op = "load" =>
               /\ \A j \in 2..Len(sessionLog[k].reads) :
                      sessionLog[k].reads[j][Len(sessionLog[k].reads[j])].ext = "vamp"
               /\ (fs = FsClaim /\ sessionLog[k].path = PMain) =>
                      sessionLog[k].tag = "ok"
        /\ (/\ sessionLog[k].op = "eval"
            /\ sessionLog[k].line = LineY
            /\ fs = FsClaim
            /\ "main" \in sessionLog[k].cached) =>
               sessionLog[k].result = [tag |-> "ok", val |-> Some(IntV(42))]

\* C17: a module already in the cache is read and evaluated again only as
\* the direct target of a load with reload = true; load(p, false) on a cached
\* p reads nothing, evaluates nothing and leaves interner, scopes and cache
\* as they were; a cached dependency of a reloaded module is left untouched.
C17_CachedModuleUntouched ==
    \A k \in DOMAIN sessionLog :
        sessionLog[k].op = "load" =>
            /\ \A mp \in sessionLog[k].cached :
                   (mp \in {module_path_of(p) : p \in Range(sessionLog[k].reads)}
                               \cup Range(sessionLog[k].ran)) =>
                       (mp = module_path_of(sessionLog[k].path) /\ sessionLog[k].reload)
            /\ (/\ ~sessionLog[k].reload
                /\ module_path_of(sessionLog[k].path) \in sessionLog[k].cached) =>
                   /\ sessionLog[k].reads = <<>>
                   /\ sessionLog[k].ran = <<>>
                   /\ sessionLog[k].same
                   /\ sessionLog[k].tag = "ok"
\* main is reloaded while main and its dependency a are cached, and a call
\* load(p, false) was made on a cached p
C17_Witness ==
    /\ \E k \in DOMAIN sessionLog :
           /\ sessionLog[k].op = "load"
           /\ sessionLog[k].path = PMain
           /\ sessionLog[k].reload
           /\ {"main", "a"} \subseteq sessionLog[k].cached
           /\ sessionLog[k].tag = "ok"
           /\ sessionLog[k].ran = <<"main">>
    /\ \E k \in DOMAIN sessionLog :
           /\ sessionLog[k].op = "load"
           /\ ~sessionLog[k].reload
           /\ module_path_of(sessionLog[k].path) \in sessionLog[k].cached

\* C18: the Mod cached for a loaded module holds the module's dependencies
\* and a scope that binds every name its let statements define.
C18_ModuleScopeHoldsDefinitions ==
    \A mp \in DOMAIN modules :
        /\ modules[mp].deps = moduleDefs[mp].deps
        /\ \A k \in DOMAIN moduleDefs[mp].defs :
               \A x \in SubValues(moduleDefs[mp].defs[k].pat, None) :
                   ~x.in_ctx =>
                       get_sym(heap[modules[mp].scope].bindings, x.name).some

\* C19: a File event whose load fails with IoError, SyntaxError or
\* RuntimeError aborts only that load: the process goes on draining.
C19_FailedLoadKeepsDraining ==
    (\E k \in DOMAIN sessionLog :
         /\ k > 1
         /\ sessionLog[k].op = "load"
         /\ sessionLog[k].tag \in {"IoError", "SyntaxError", "RuntimeError"}) =>
        mainPc \in {"draining", "done"}

\* What the session shows of an event applied to it
AppliedAs(event, rec) ==
    CASE event.ev = "File" ->
             rec.op = "load" /\ rec.path = event.path /\ rec.reload
      [] event.ev = "Repl" -> rec.op = "eval" /\ rec.line = event.line
      [] OTHER -> FALSE

\* C20: the events are applied to the session one at a time in the order the
\* channel delivers them; Exit ends the drain loop, and nothing delivered
\* after that Exit is applied.
C20_AppliedInChannelOrder ==
    /\ received \o channel = sent
    /\ \A k \in DOMAIN received :
           received[k] = Exit <=> (k = Len(received) /\ mainPc = "done")
    /\ mainPc # "start" =>
           /\ Len(sessionLog) = 1 + Len(SelectSeq(received, LAMBDA e : e # Exit))
           /\ \A k \in 2..Len(sessionLog) :
                  AppliedAs(received[k - 1], sessionLog[k])
\* Exit was received after an applied event, with an event still behind it
C20_Witness ==
    /\ mainPc = "done"
    /\ channel # <<>>
    /\ Len(received) >= 2
    /\ Len(sessionLog) = Len(received)

(***************************************************************************)
(* Specifications                                                          *)
(***************************************************************************)
\* The components a specification does not exercise stay as constructed.
TupleIdle == tuple = TupleNew /\ tupleHist = TupleHistNew
InternIdle == interner = InternerNew /\ internHist = InternHistNew
LexIdle ==
    /\ source = <<>>
    /\ lexer = TokensNew
    /\ tokens = <<>>
    /\ lexPc = "whitespace"
    /\ lexResult = "running"
ParseIdle == parsed = <<>>
EvalIdle ==
    /\ heap = SessionHeap
    /\ evaluated = <<>>
    /\ evalTrace = TraceNew
    /\ build = "debug"
    /\ bindArgs = <<>>
SessionIdle ==
    /\ fs = FsClaim
    /\ modules = <<>>
    /\ moduleDefs = <<>>
    /\ sessionLog = <<>>
    /\ mainPc = "start"
MainIdle ==
    /\ replPc = "reading"
    /\ channel = <<>>
    /\ sent = <<>>
    /\ received = <<>>

SpecTupleNext ==
    \/ TuplePush /\ UNCHANGED <<internVars, lexVars, parseVars, evalVars, sessionVars, mainVars>>
    \/ TupleInsert /\ UNCHANGED <<internVars, lexVars, parseVars, evalVars, sessionVars, mainVars>>
    \/ TupleGetIndex /\ UNCHANGED <<internVars, lexVars, parseVars, evalVars, sessionVars, mainVars>>
    \/ TupleGetKey /\ UNCHANGED <<internVars, lexVars, parseVars, evalVars, sessionVars, mainVars>>
SpecTupleInit == TupleIdle /\ InternIdle /\ LexIdle /\ ParseIdle /\ EvalIdle /\ SessionIdle /\ MainIdle
SpecTuple == SpecTupleInit /\ [][SpecTupleNext]_vars

SpecInternNext ==
    \/ InternCall /\ UNCHANGED <<tupleVars, lexVars, parseVars, evalVars, sessionVars, mainVars>>
    \/ LookupCall /\ UNCHANGED <<tupleVars, lexVars, parseVars, evalVars, sessionVars, mainVars>>
SpecInternInit == TupleIdle /\ InternIdle /\ LexIdle /\ ParseIdle /\ EvalIdle /\ SessionIdle /\ MainIdle
SpecIntern == SpecInternInit /\ [][SpecInternNext]_vars

SpecPrivateNext ==
    \/ InternCall /\ UNCHANGED <<tupleVars, lexVars, parseVars, evalVars, sessionVars, mainVars>>
    \/ PrivateCall /\ UNCHANGED <<tupleVars, lexVars, parseVars, evalVars, sessionVars, mainVars>>
    \/ LookupCall /\ UNCHANGED <<tupleVars, lexVars, parseVars, evalVars, sessionVars, mainVars>>
SpecPrivateInit == TupleIdle /\ InternIdle /\ LexIdle /\ ParseIdle /\ EvalIdle /\ SessionIdle /\ MainIdle
SpecPrivate == SpecPrivateInit /\ [][SpecPrivateNext]_vars

SpecLexInit ==
    /\ TupleIdle
    /\ InternIdle
    /\ ParseIdle
    /\ SessionIdle
    /\ MainIdle
    /\ EvalIdle
    /\ source \in Sources
    /\ lexer = TokensNew
    /\ tokens = <<>>
    /\ lexPc = "whitespace"
    /\ lexResult = "running"
SpecLexNext ==
    \/ LexWhitespaceBump /\ UNCHANGED <<tupleVars, internVars, parseVars, evalVars, sessionVars, mainVars>>
    \/ LexCommentOpen /\ UNCHANGED <<tupleVars, internVars, parseVars, evalVars, sessionVars, mainVars>>
    \/ LexCommentBump /\ UNCHANGED <<tupleVars, internVars, parseVars, evalVars, sessionVars, mainVars>>
    \/ LexCommentClose /\ UNCHANGED <<tupleVars, internVars, parseVars, evalVars, sessionVars, mainVars>>
    \/ LexWhitespaceBreak /\ UNCHANGED <<tupleVars, internVars, parseVars, evalVars, sessionVars, mainVars>>
    \/ LexToken /\ UNCHANGED <<tupleVars, internVars, parseVars, evalVars, sessionVars, mainVars>>
SpecLex == SpecLexInit /\ [][SpecLexNext]_vars
\* tokenize runs on the calling thread and is never suspended: a step that
\* can be taken is taken.
SpecLexFair == SpecLex /\ WF_vars(SpecLexNext)

\* tokenize on sources that may hold the byte 0
SpecLexBytesInit ==
    /\ TupleIdle
    /\ InternIdle
    /\ ParseIdle
    /\ EvalIdle
    /\ SessionIdle
    /\ MainIdle
    /\ source \in ByteSources
    /\ lexer = TokensNew
    /\ tokens = <<>>
    /\ lexPc = "whitespace"
    /\ lexResult = "running"
SpecLexBytes == SpecLexBytesInit /\ [][SpecLexNext]_vars

\* parse_expr: the lexer runs to completion, then the parser.
SpecParseInit ==
    /\ TupleIdle
    /\ InternIdle
    /\ ParseIdle
    /\ SessionIdle
    /\ MainIdle
    /\ EvalIdle
    /\ source \in ParseSources
    /\ lexer = TokensNew
    /\ tokens = <<>>
    /\ lexPc = "whitespace"
    /\ lexResult = "running"
SpecParseNext ==
    \/ LexWhitespaceBump /\ UNCHANGED <<tupleVars, internVars, parseVars, evalVars, sessionVars, mainVars>>
    \/ LexCommentOpen /\ UNCHANGED <<tupleVars, internVars, parseVars, evalVars, sessionVars, mainVars>>
    \/ LexCommentBump /\ UNCHANGED <<tupleVars, internVars, parseVars, evalVars, sessionVars, mainVars>>
    \/ LexCommentClose /\ UNCHANGED <<tupleVars, internVars, parseVars, evalVars, sessionVars, mainVars>>
    \/ LexWhitespaceBreak /\ UNCHANGED <<tupleVars, internVars, parseVars, evalVars, sessionVars, mainVars>>
    \/ LexToken /\ UNCHANGED <<tupleVars, internVars, parseVars, evalVars, sessionVars, mainVars>>
    \/ ParseExpr /\ UNCHANGED <<tupleVars, evalVars, sessionVars, mainVars>>
SpecParse == SpecParseInit /\ [][SpecParseNext]_vars

\* Session::eval_stmt on one REPL line: the lexer, then parser and evaluator.
SpecEvalInit ==
    /\ TupleIdle
    /\ InternIdle
    /\ ParseIdle
    /\ SessionIdle
    /\ MainIdle
    /\ source \in EvalSources
    /\ lexer = TokensNew
    /\ tokens = <<>>
    /\ lexPc = "whitespace"
    /\ lexResult = "running"
    /\ heap = SessionHeap
    /\ evaluated = <<>>
    /\ evalTrace = TraceNew
    /\ build \in {"debug", "release"}
    /\ bindArgs = <<>>
SpecEvalNext ==
    \/ LexWhitespaceBump /\ UNCHANGED <<tupleVars, internVars, parseVars, evalVars, sessionVars, mainVars>>
    \/ LexCommentOpen /\ UNCHANGED <<tupleVars, internVars, parseVars, evalVars, sessionVars, mainVars>>
    \/ LexCommentBump /\ UNCHANGED <<tupleVars, internVars, parseVars, evalVars, sessionVars, mainVars>>
    \/ LexCommentClose /\ UNCHANGED <<tupleVars, internVars, parseVars, evalVars, sessionVars, mainVars>>
    \/ LexWhitespaceBreak /\ UNCHANGED <<tupleVars, internVars, parseVars, evalVars, sessionVars, mainVars>>
    \/ LexToken /\ UNCHANGED <<tupleVars, internVars, parseVars, evalVars, sessionVars, mainVars>>
    \/ SessionEvalStmt /\ UNCHANGED <<tupleVars, sessionVars, mainVars>>
SpecEval == SpecEvalInit /\ [][SpecEvalNext]_vars

\* bind on every pattern and value of the input sets
SpecBindInit ==
    /\ TupleIdle
    /\ InternIdle
    /\ LexIdle
    /\ ParseIdle
    /\ SessionIdle
    /\ MainIdle
    /\ heap = SessionHeap
    /\ evaluated = <<>>
    /\ evalTrace = TraceNew
    /\ build = "debug"
    /\ bindArgs \in {<<[pattern |-> p, value |-> v]>> : p \in BindPatterns, v \in BindValues}
SpecBindNext ==
    \/ BindCall /\ UNCHANGED <<tupleVars, internVars, lexVars, parseVars, sessionVars, mainVars>>
SpecBind == SpecBindInit /\ [][SpecBindNext]_vars

\* A session on which load and eval_stmt are called in any order
SpecSessionInit ==
    /\ TupleIdle
    /\ InternIdle
    /\ LexIdle
    /\ ParseIdle
    /\ MainIdle
    /\ heap = SessionHeap
    /\ evaluated = <<>>
    /\ evalTrace = TraceNew
    /\ build = "release"
    /\ bindArgs = <<>>
    /\ fs \in FileSystems
    /\ modules = <<>>
    /\ moduleDefs = <<>>
    /\ sessionLog = <<>>
    /\ mainPc = "calling"
SpecSessionNext ==
    \/ SessionLoad
           /\ UNCHANGED <<tupleVars, lexVars, parseVars, evaluated, evalTrace, bindArgs, mainVars>>
    \/ SessionEvalLine
           /\ UNCHANGED <<tupleVars, lexVars, parseVars, evaluated, evalTrace, bindArgs, mainVars>>
SpecSession == SpecSessionInit /\ [][SpecSessionNext]_vars

\* main: the entry module is loaded, then the events of the watcher and of
\* the REPL thread are drained
SpecMainInit ==
    /\ TupleIdle
    /\ InternIdle
    /\ LexIdle
    /\ ParseIdle
    /\ MainIdle
    /\ heap = SessionHeap
    /\ evaluated = <<>>
    /\ evalTrace = TraceNew
    /\ build = "release"
    /\ bindArgs = <<>>
    /\ fs \in FileSystems
    /\ modules = <<>>
    /\ moduleDefs = <<>>
    /\ sessionLog = <<>>
    /\ mainPc = "start"
SpecMainNext ==
    \/ MainLoadEntry
           /\ UNCHANGED <<tupleVars, lexVars, parseVars, evaluated, evalTrace, bindArgs>>
    \/ WatcherSend
           /\ UNCHANGED <<tupleVars, lexVars, parseVars, evaluated, evalTrace, bindArgs>>
    \/ ReplSend
           /\ UNCHANGED <<tupleVars, lexVars, parseVars, evaluated, evalTrace, bindArgs>>
    \/ ReplSendExit
           /\ UNCHANGED <<tupleVars, lexVars, parseVars, evaluated, evalTrace, bindArgs>>
    \/ ReplFail
           /\ UNCHANGED <<tupleVars, lexVars, parseVars, evaluated, evalTrace, bindArgs>>
    \/ MainRecv
           /\ UNCHANGED <<tupleVars, lexVars, parseVars, evaluated, evalTrace, bindArgs>>
SpecMain == SpecMainInit /\ [][SpecMainNext]_vars

\* parse_expr, parse_stmt and parse_module, each called on a source
SpecParseCallInit ==
    /\ TupleIdle
    /\ InternIdle
    /\ ParseIdle
    /\ EvalIdle
    /\ SessionIdle
    /\ MainIdle
    /\ LexIdle
SpecParseCallNext ==
    \/ ParseExprCall /\ UNCHANGED <<tupleVars, evalVars, sessionVars, mainVars>>
    \/ ParseStmtCall /\ UNCHANGED <<tupleVars, evalVars, sessionVars, mainVars>>
    \/ ParseModuleCall /\ UNCHANGED <<tupleVars, evalVars, sessionVars, mainVars>>
SpecParseCall == SpecParseCallInit /\ [][SpecParseCallNext]_vars

====
